---- MODULE Spec2Model ----
(***************************************************************************)
(* BetterDataTable: the query engine (QueryEngine.run and its comparator), *)
(* and the orchestrator's render scheduling, server-query lifecycle,       *)
(* mutators and teardown.                                                  *)
(***************************************************************************)
EXTENDS Integers, Sequences, FiniteSets, TLC

(***************************************************************************)
(* Values held by row fields.  JavaScript values are tagged so that a      *)
(* number, a string, null and undefined stay distinct (=== is strict).     *)
(* A string is a sequence of one-character strings.                        *)
(***************************************************************************)
Null == [t |-> "null", n |-> 0, s |-> <<>>]

Undef == [t |-> "undef", n |-> 0, s |-> <<>>]

Num(n) == [t |-> "num", n |-> n, s |-> <<>>]

Str(s) == [t |-> "str", n |-> 0, s |-> s]

IsNullish(v) == v.t = "null" \/ v.t = "undef"

Max(a, b) == IF a >= b THEN a ELSE b

Min(a, b) == IF a <= b THEN a ELSE b

\* utils.js clamp
clamp(value, min, max) == Max(min, Min(max, value))

Digits == <<"0", "1", "2", "3", "4", "5", "6", "7", "8", "9">>

IsDigit(c) == \E d \in 1..10 : Digits[d] = c

DigitValue(c) == (CHOOSE d \in 1..10 : Digits[d] = c) - 1

\* String(n) for a non-negative integer: its decimal digits.
RECURSIVE NumberToString(_)
NumberToString(n) ==
  IF n < 10 THEN <<Digits[n + 1]>>
  ELSE NumberToString(n \div 10) \o <<Digits[(n % 10) + 1]>>

\* utils.js toText: null and undefined give "", anything else String(value).
toText(v) ==
  IF IsNullish(v) THEN <<>>
  ELSE IF v.t = "num" THEN NumberToString(v.n)
  ELSE v.s

\* String.prototype.toLowerCase on the model's alphabet.
LowerChar(c) ==
  CASE c = "A" -> "a"
    [] c = "B" -> "b"
    [] OTHER -> c

toLowerCase(s) == [i \in 1..Len(s) |-> LowerChar(s[i])]

\* String.prototype.includes: term occurs in text as a contiguous substring.
includes(text, term) ==
  \E i \in 0..(Len(text) - Len(term)) :
    \A k \in 1..Len(term) : text[i + k] = term[k]

(***************************************************************************)
(* String.prototype.localeCompare(other, undefined, {sensitivity: "base",  *)
(* numeric: true}) on the model's alphabet: letters compare without regard *)
(* to case, digits collate before letters, a maximal run of digits         *)
(* compares by its numeric value, and a proper prefix collates first.      *)
(***************************************************************************)
CharRank(c) ==
  IF IsDigit(c) THEN DigitValue(c)
  ELSE IF LowerChar(c) = "a" THEN 10
  ELSE 11

RECURSIVE DigitRunLen(_)
DigitRunLen(s) ==
  IF s = <<>> \/ ~IsDigit(Head(s)) THEN 0 ELSE 1 + DigitRunLen(Tail(s))

RECURSIVE DigitRunValue(_, _)
DigitRunValue(s, acc) ==
  IF s = <<>> \/ ~IsDigit(Head(s)) THEN acc
  ELSE DigitRunValue(Tail(s), acc * 10 + DigitValue(Head(s)))

Sign(x) == IF x < 0 THEN -1 ELSE IF x > 0 THEN 1 ELSE 0

\* Number(value): NaN for undefined and for a text that is not a numeral, 0
\* for null and for the empty text.
NumberOf(v) ==
  CASE v.t = "num" -> [nan |-> FALSE, n |-> v.n]
    [] v.t = "null" -> [nan |-> FALSE, n |-> 0]
    [] v.t = "undef" -> [nan |-> TRUE, n |-> 0]
    [] OTHER -> IF DigitRunLen(v.s) = Len(v.s)
                  THEN [nan |-> FALSE, n |-> DigitRunValue(v.s, 0)]
                  ELSE [nan |-> TRUE, n |-> 0]

\* Number(value) > 0
IsPositive(v) == ~NumberOf(v).nan /\ NumberOf(v).n > 0

RECURSIVE localeCompare(_, _)
localeCompare(a, b) ==
  IF a = <<>> /\ b = <<>> THEN 0
  ELSE IF a = <<>> THEN -1
  ELSE IF b = <<>> THEN 1
  ELSE IF IsDigit(Head(a)) /\ IsDigit(Head(b)) THEN
    LET va == DigitRunValue(a, 0)
        vb == DigitRunValue(b, 0)
    IN  IF va # vb THEN Sign(va - vb)
        ELSE localeCompare(SubSeq(a, DigitRunLen(a) + 1, Len(a)),
                           SubSeq(b, DigitRunLen(b) + 1, Len(b)))
  ELSE IF CharRank(Head(a)) # CharRank(Head(b)) THEN
    Sign(CharRank(Head(a)) - CharRank(Head(b)))
  ELSE localeCompare(Tail(a), Tail(b))

\* Variant of compareValues that puts null and undefined last in both directions.
compareValuesNullsAlwaysLast(a, b, direction) ==
  IF a = b THEN 0
  ELSE IF IsNullish(a) THEN 1
  ELSE IF IsNullish(b) THEN -1
  ELSE IF a.t = "num" /\ b.t = "num" THEN
    (IF direction = "asc" THEN a.n - b.n ELSE b.n - a.n)
  ELSE
    LET result == localeCompare(toText(a), toText(b))
    IN  IF direction = "asc" THEN result ELSE -result

\* QueryEngine.js compareValues(a, b, direction)
compareValues(a, b, direction) ==
  IF a = b THEN 0
  ELSE IF IsNullish(a) THEN (IF direction = "asc" THEN 1 ELSE -1)
  ELSE IF IsNullish(b) THEN (IF direction = "asc" THEN -1 ELSE 1)
  ELSE IF a.t = "num" /\ b.t = "num" THEN
    (IF direction = "asc" THEN a.n - b.n ELSE b.n - a.n)
  ELSE
    LET result == localeCompare(toText(a), toText(b))
    IN  IF direction = "asc" THEN result ELSE -result

(***************************************************************************)
(* Rows and columns.  A row is a record with the fields name and score; a  *)
(* field the row does not carry reads as undefined (parseAccessor).  A     *)
(* column descriptor is what setColumns keeps: id, accessor and the two    *)
(* flags, which default to true.                                           *)
(***************************************************************************)
Column(id, searchable, sortable) ==
  [id |-> id, accessor |-> id, searchable |-> searchable, sortable |-> sortable]

\* utils.js parseAccessor, for a one-segment field path.
getValue(column, row) ==
  IF column.accessor \in DOMAIN row THEN row[column.accessor] ELSE Undef

\* this.columnById.get(id): the column with that id, or none.
HasColumn(columns, id) == \E i \in 1..Len(columns) : columns[i].id = id

columnById(columns, id) ==
  columns[CHOOSE i \in 1..Len(columns) : columns[i].id = id]

DefaultPageSize == 25

\* run(): the text a search compares, with the case rule applied.
CaseFold(caseSensitive, text) ==
  IF caseSensitive THEN text ELSE toLowerCase(text)

\* Variant of RowMatches that also searches columns with searchable: false.
RowMatchesAnyColumn(columns, caseSensitive, searchValue, row) ==
  \/ searchValue = <<>>
  \/ \E i \in 1..Len(columns) :
       includes(CaseFold(caseSensitive, toText(getValue(columns[i], row))),
                searchValue)

\* run() lines 74-84: whether a row passes the search filter.
RowMatches(columns, caseSensitive, searchValue, row) ==
  \/ searchValue = <<>>
  \/ \E i \in 1..Len(columns) :
       /\ columns[i].searchable
       /\ includes(CaseFold(caseSensitive, toText(getValue(columns[i], row))),
                   searchValue)

\* run() lines 70-87: the filtered rows, each with its original index.
RECURSIVE DecorateFrom(_, _, _, _, _)
DecorateFrom(rows, columns, caseSensitive, searchValue, index) ==
  IF index > Len(rows) THEN <<>>
  ELSE (IF RowMatches(columns, caseSensitive, searchValue, rows[index])
          THEN <<[row |-> rows[index], index |-> index]>>
          ELSE <<>>)
       \o DecorateFrom(rows, columns, caseSensitive, searchValue, index + 1)

Decorate(rows, columns, caseSensitive, search) ==
  DecorateFrom(rows, columns, caseSensitive, CaseFold(caseSensitive, search), 1)

\* Variant of the rule loop that skips unknown columns only.
RECURSIVE RuleCompareHonorsUnsortable(_, _, _, _, _)
RuleCompareHonorsUnsortable(columns, sortRules, left, right, k) ==
  IF k > Len(sortRules) THEN 0
  ELSE IF ~HasColumn(columns, sortRules[k].id)
    THEN RuleCompareHonorsUnsortable(columns, sortRules, left, right, k + 1)
  ELSE
    LET column == columnById(columns, sortRules[k].id)
        direction == IF sortRules[k].direction = "desc" THEN "desc" ELSE "asc"
        result == compareValues(getValue(column, left.row),
                                getValue(column, right.row), direction)
    IN  IF result # 0 THEN result
        ELSE RuleCompareHonorsUnsortable(columns, sortRules, left, right, k + 1)

\* run() lines 92-103: the first non-zero comparison among the honored rules,
\* 0 when every honored rule ties.
RECURSIVE RuleCompareFrom(_, _, _, _, _)
RuleCompareFrom(columns, sortRules, left, right, k) ==
  IF k > Len(sortRules) THEN 0
  ELSE IF ~HasColumn(columns, sortRules[k].id)
          \/ ~columnById(columns, sortRules[k].id).sortable
    THEN RuleCompareFrom(columns, sortRules, left, right, k + 1)
  ELSE
    LET column == columnById(columns, sortRules[k].id)
        direction == IF sortRules[k].direction = "desc" THEN "desc" ELSE "asc"
        result == compareValues(getValue(column, left.row),
                                getValue(column, right.row), direction)
    IN  IF result # 0 THEN result
        ELSE RuleCompareFrom(columns, sortRules, left, right, k + 1)

\* Variant of RowCompare without the original-index fallback.
RowCompareNoTieBreak(columns, sortRules, left, right) ==
  RuleCompareFrom(columns, sortRules, left, right, 1)

\* run() lines 91-107: the comparator handed to Array.prototype.sort; ties
\* fall back to the original index.
RowCompare(columns, sortRules, left, right) ==
  LET result == RuleCompareFrom(columns, sortRules, left, right, 1)
  IN  IF result # 0 THEN result ELSE left.index - right.index

\* The comparator orders left before right, and consistently so.
ConsistentlyBefore(columns, sortRules, left, right) ==
  /\ RowCompare(columns, sortRules, left, right) < 0
  /\ RowCompare(columns, sortRules, right, left) > 0

\* The orderings of the elements of decorated at the indices in remaining
\* in which no element comes after one the comparator consistently puts
\* it before.
RECURSIVE Orderings(_, _, _, _)
Orderings(columns, sortRules, decorated, remaining) ==
  IF remaining = {} THEN { <<>> }
  ELSE UNION {
         { <<decorated[x]>> \o rest :
             rest \in Orderings(columns, sortRules, decorated, remaining \ {x}) } :
         x \in { x \in remaining :
                   \A y \in remaining \ {x} :
                     ~ConsistentlyBefore(columns, sortRules,
                                         decorated[y], decorated[x]) } }

(***************************************************************************)
(* Array.prototype.sort with the comparator above.  Where the comparator   *)
(* orders a pair consistently (one way negative, the other way positive)   *)
(* the result has the pair in that order; where it answers inconsistently  *)
(* (both ways the same sign) the order of the pair is implementation-      *)
(* defined, so every order is a possible outcome.  With no sort rules the  *)
(* array is not sorted at all.                                             *)
(***************************************************************************)
SortOutcomes(columns, sortRules, decorated) ==
  IF Len(sortRules) = 0 THEN {decorated}
  ELSE Orderings(columns, sortRules, decorated, 1..Len(decorated))

Rows(decorated) == [i \in 1..Len(decorated) |-> decorated[i].row]

\* Array.prototype.slice(start, end) with 0-based, end-exclusive bounds.
slice(seq, start, end) ==
  SubSeq(seq, Max(0, start) + 1, Min(end, Len(seq)))

CeilDiv(a, b) == (a + b - 1) \div b

\* A sort rule, and the parameter object of run.
Directions == {"asc", "desc"}

SortRule(id, direction) == [id |-> id, direction |-> direction]

\* The parameter object with the page size as the value the caller passed.
RawParams(search, sort, page, pageSize, pagination) ==
  [search |-> search, sort |-> sort, page |-> page, pageSize |-> pageSize,
   pagination |-> pagination]

Params(search, sort, page, pageSize, pagination) ==
  RawParams(search, sort, page, Num(pageSize), pagination)

\* Variant of Paginate that clamps the page only from above.
PaginateNoLowerClamp(filteredRows, totalCount, params) ==
  LET filteredCount == Len(filteredRows)
      safePageSize == IF IsPositive(params.pageSize)
                        THEN NumberOf(params.pageSize).n
                        ELSE DefaultPageSize
      totalPages == IF filteredCount = 0 THEN 0
                    ELSE CeilDiv(filteredCount, safePageSize)
      safePage == IF totalPages = 0 THEN 0 ELSE Min(params.page, totalPages - 1)
      start == safePage * safePageSize
  IN  IF ~params.pagination THEN
        [rows |-> filteredRows, filteredCount |-> filteredCount,
         totalCount |-> totalCount,
         totalPages |-> IF filteredCount = 0 THEN 0 ELSE 1,
         page |-> 0]
      ELSE
        [rows |-> slice(filteredRows, start, start + safePageSize),
         filteredCount |-> filteredCount,
         totalCount |-> totalCount,
         totalPages |-> totalPages,
         page |-> safePage]

\* Variant of Paginate whose page size falls back to 1, as the server branch
\* of #computeRenderResult does.
PaginateFallsBackToOne(filteredRows, totalCount, params) ==
  LET filteredCount == Len(filteredRows)
      safePageSize == IF IsPositive(params.pageSize)
                        THEN NumberOf(params.pageSize).n ELSE 1
      totalPages == IF filteredCount = 0 THEN 0
                    ELSE CeilDiv(filteredCount, safePageSize)
      safePage == IF totalPages = 0 THEN 0
                  ELSE Min(Max(params.page, 0), totalPages - 1)
      start == safePage * safePageSize
  IN  IF ~params.pagination THEN
        [rows |-> filteredRows, filteredCount |-> filteredCount,
         totalCount |-> totalCount,
         totalPages |-> IF filteredCount = 0 THEN 0 ELSE 1,
         page |-> 0]
      ELSE
        [rows |-> slice(filteredRows, start, start + safePageSize),
         filteredCount |-> filteredCount,
         totalCount |-> totalCount,
         totalPages |-> totalPages,
         page |-> safePage]

\* Variant of Paginate whose slice starts at the page number.
PaginateFromPageNumber(filteredRows, totalCount, params) ==
  LET filteredCount == Len(filteredRows)
      safePageSize == IF IsPositive(params.pageSize)
                        THEN NumberOf(params.pageSize).n ELSE DefaultPageSize
      totalPages == IF filteredCount = 0 THEN 0
                    ELSE CeilDiv(filteredCount, safePageSize)
      safePage == IF totalPages = 0 THEN 0
                  ELSE Min(Max(params.page, 0), totalPages - 1)
  IN  IF ~params.pagination THEN
        [rows |-> filteredRows, filteredCount |-> filteredCount,
         totalCount |-> totalCount,
         totalPages |-> IF filteredCount = 0 THEN 0 ELSE 1,
         page |-> 0]
      ELSE
        [rows |-> slice(filteredRows, safePage, safePage + safePageSize),
         filteredCount |-> filteredCount,
         totalCount |-> totalCount,
         totalPages |-> totalPages,
         page |-> safePage]

\* run() lines 110-135: counts, page clamp and page slice for one sort outcome.
Paginate(filteredRows, totalCount, params) ==
  LET filteredCount == Len(filteredRows)
  IN  IF ~params.pagination THEN
        [rows |-> filteredRows, filteredCount |-> filteredCount,
         totalCount |-> totalCount,
         totalPages |-> IF filteredCount = 0 THEN 0 ELSE 1,
         page |-> 0]
      ELSE
        LET safePageSize == IF IsPositive(params.pageSize)
                              THEN NumberOf(params.pageSize).n
                              ELSE DefaultPageSize
            totalPages == IF filteredCount = 0 THEN 0
                          ELSE CeilDiv(filteredCount, safePageSize)
            safePage == IF totalPages = 0 THEN 0
                        ELSE Min(Max(params.page, 0), totalPages - 1)
            start == safePage * safePageSize
        IN  [rows |-> slice(filteredRows, start, start + safePageSize),
             filteredCount |-> filteredCount,
             totalCount |-> totalCount,
             totalPages |-> totalPages,
             page |-> safePage]

\* QueryEngine.run: every result the call can return.
run(rows, columns, caseSensitive, params) ==
  { Paginate(Rows(p), Len(rows), params) :
      p \in SortOutcomes(columns, params.sort,
                         Decorate(rows, columns, caseSensitive, params.search)) }

(***************************************************************************)
(* The orchestrator: options, records and helpers.                         *)
(***************************************************************************)
\* DEFAULT_OPTIONS.virtualization
HeightOption == 420

RowHeightOption == 40

OverscanOption == 8

\* An optional count of a server response: present with a value, or omitted.
Some(n) == [present |-> TRUE, value |-> n]

None == [present |-> FALSE, value |-> 0]

\* The record load() falls back to and clearState() restores: options.sorting
\* .initial is empty and options.pagination.pageSize is the default.
DefaultState ==
  [search |-> <<>>, sort |-> <<>>, page |-> 0, pageSize |-> DefaultPageSize,
   scrollTop |-> 0]

\* The persistence medium under the table's key.
NoRecord == [present |-> FALSE, rec |-> DefaultState]

\* StateStore.save via #persistState: the five fields, serialised whole.
Saved(st) == [present |-> TRUE, rec |-> st]

\* StateStore.load(fallback): the stored record, or the fallback.
load(medium, fallback) == IF medium.present THEN medium.rec ELSE fallback

EmptySnapshot == [rows |-> <<>>, totalCount |-> 0, filteredCount |-> 0]

EmptyRenderResult ==
  [totalCount |-> 0, filteredCount |-> 0, pageRows |-> <<>>, visibleRows |-> <<>>,
   page |-> 0, totalPages |-> 0, startRowIndex |-> 0, endRowIndex |-> 0,
   topPad |-> 0, bottomPad |-> 0]

NoFrame == "null"

FrameHandle == "frame"

NoTimer == [armed |-> FALSE, value |-> <<>>]

\* #buildServerQuery
BuildServerQuery(st) ==
  [search |-> st.search, sort |-> st.sort, page |-> st.page,
   pageSize |-> st.pageSize]

\* getState()
getState(st) ==
  [search |-> st.search, sort |-> st.sort, page |-> st.page,
   pageSize |-> st.pageSize, scrollTop |-> st.scrollTop]

\* The payloads handed to #emit.
LifecycleEvent(type) == [type |-> type]

StateChange(reason, st) ==
  [type |-> "stateChange", reason |-> reason, state |-> getState(st)]

DataLoaded(count) == [type |-> "dataLoaded", rows |-> count, source |-> "client"]

BeforeQuery(query, token) == [type |-> "beforeQuery", query |-> query, token |-> token]

AfterQuery(query, token, snapshot) ==
  [type |-> "afterQuery", query |-> query, token |-> token,
   result |-> [rows |-> Len(snapshot.rows),
               filteredCount |-> snapshot.filteredCount,
               totalCount |-> snapshot.totalCount]]

QueryError(query, token) ==
  [type |-> "error", kind |-> "query", token |-> token, query |-> query]

BeforeRender(reasons, st) ==
  [type |-> "beforeRender", reason |-> reasons, state |-> getState(st)]

AfterRender(reasons, result) ==
  [type |-> "afterRender", reason |-> reasons,
   rowsRendered |-> Len(result.visibleRows), totalRows |-> result.filteredCount]

\* The outcome of a settled fetch, and the value before any fetch has settled.
SettledAs(token, outcome) == [token |-> token, outcome |-> outcome]

NoneSettled == SettledAs(0, "none")

\* A fetch in flight: the token and the query reload() captured for it.
Request(token, query) == [token |-> token, query |-> query]

\* #shouldQueryServer
ShouldQueryServer(enabled, reason) ==
  enabled /\ reason \in {"search", "sort", "page", "page-size", "reload"}

\* reload() lines 1141-1149: the snapshot an accepted response becomes.
\* Variant of the snapshot whose missing totalCount is the number of rows.
SnapshotTotalFromRows(response) ==
  [rows |-> response.rows,
   filteredCount |-> IF response.filteredCount.present
                       THEN response.filteredCount.value ELSE Len(response.rows),
   totalCount |-> IF response.totalCount.present
                    THEN response.totalCount.value ELSE Len(response.rows)]

SnapshotOf(response) ==
  LET filteredCount == IF response.filteredCount.present
                         THEN response.filteredCount.value
                         ELSE Len(response.rows)
      totalCount == IF response.totalCount.present
                      THEN response.totalCount.value
                      ELSE filteredCount
  IN  [rows |-> response.rows, filteredCount |-> filteredCount,
       totalCount |-> totalCount]

\* Variant of #computeRenderResult that keeps the page of the state in server mode.
ComputeRenderResultKeepsPage(enabled, snapshot, st, rows, columns, caseSensitive) ==
  IF enabled THEN
    LET safePageSize == Max(1, st.pageSize)
        totalPages == IF snapshot.filteredCount = 0 THEN 0
                      ELSE CeilDiv(snapshot.filteredCount, safePageSize)
    IN  { [pageRows |-> snapshot.rows,
           filteredCount |-> snapshot.filteredCount,
           totalCount |-> snapshot.totalCount,
           totalPages |-> totalPages,
           page |-> st.page] }
  ELSE
    { [pageRows |-> query.rows,
       filteredCount |-> query.filteredCount,
       totalCount |-> query.totalCount,
       totalPages |-> query.totalPages,
       page |-> query.page] :
        query \in run(rows, columns, caseSensitive,
                      Params(st.search, st.sort, st.page, st.pageSize, TRUE)) }

\* #computeRenderResult: in server mode from the snapshot, otherwise every
\* result queryEngine.run can return for the current state.
ComputeRenderResult(enabled, snapshot, st, rows, columns, caseSensitive) ==
  IF enabled THEN
    LET safePageSize == Max(1, st.pageSize)
        totalPages == IF snapshot.filteredCount = 0 THEN 0
                      ELSE CeilDiv(snapshot.filteredCount, safePageSize)
    IN  { [pageRows |-> snapshot.rows,
           filteredCount |-> snapshot.filteredCount,
           totalCount |-> snapshot.totalCount,
           totalPages |-> totalPages,
           page |-> clamp(st.page, 0, Max(0, totalPages - 1))] }
  ELSE
    { [pageRows |-> query.rows,
       filteredCount |-> query.filteredCount,
       totalCount |-> query.totalCount,
       totalPages |-> query.totalPages,
       page |-> query.page] :
        query \in run(rows, columns, caseSensitive,
                      Params(st.search, st.sort, st.page, st.pageSize, TRUE)) }

\* DEFAULT_OPTIONS.virtualization
DefaultVirtualization ==
  [enabled |-> TRUE, height |-> HeightOption, rowHeight |-> RowHeightOption,
   overscan |-> OverscanOption]

\* Variant of the window that uses the configured overscan and height as given.
VirtualWindowAsConfigured(pageRows, scrollTop, options) ==
  IF ~options.enabled THEN
    [visibleRows |-> pageRows, startRowIndex |-> 0, endRowIndex |-> Len(pageRows),
     topPad |-> 0, bottomPad |-> 0]
  ELSE
    LET rowHeight == Max(24, options.rowHeight)
        overscan == options.overscan
        rowsPerViewport == CeilDiv(options.height, rowHeight)
        maxStart == Max(0, Len(pageRows) - rowsPerViewport)
        startRowIndex == clamp((scrollTop \div rowHeight) - overscan, 0, maxStart)
        endRowIndex == clamp(startRowIndex + rowsPerViewport + overscan * 2, 0,
                             Len(pageRows))
    IN  [visibleRows |-> slice(pageRows, startRowIndex, endRowIndex),
         startRowIndex |-> startRowIndex,
         endRowIndex |-> endRowIndex,
         topPad |-> startRowIndex * rowHeight,
         bottomPad |-> Max(0, (Len(pageRows) - endRowIndex) * rowHeight)]

\* Variant of the window whose end index is not clamped to the row count.
VirtualWindowUnclampedEnd(pageRows, scrollTop, options) ==
  IF ~options.enabled THEN
    [visibleRows |-> pageRows, startRowIndex |-> 0, endRowIndex |-> Len(pageRows),
     topPad |-> 0, bottomPad |-> 0]
  ELSE
    LET rowHeight == Max(24, options.rowHeight)
        overscan == Max(1, options.overscan)
        viewportHeight == Max(rowHeight, options.height)
        rowsPerViewport == CeilDiv(viewportHeight, rowHeight)
        maxStart == Max(0, Len(pageRows) - rowsPerViewport)
        startRowIndex == clamp((scrollTop \div rowHeight) - overscan, 0, maxStart)
        endRowIndex == startRowIndex + rowsPerViewport + overscan * 2
    IN  [visibleRows |-> slice(pageRows, startRowIndex, endRowIndex),
         startRowIndex |-> startRowIndex,
         endRowIndex |-> endRowIndex,
         topPad |-> startRowIndex * rowHeight,
         bottomPad |-> Max(0, (Len(pageRows) - endRowIndex) * rowHeight)]

\* Variant of the window that adds the overscan once after the start index.
VirtualWindowOverscanOnce(pageRows, scrollTop, options) ==
  IF ~options.enabled THEN
    [visibleRows |-> pageRows, startRowIndex |-> 0, endRowIndex |-> Len(pageRows),
     topPad |-> 0, bottomPad |-> 0]
  ELSE
    LET rowHeight == Max(24, options.rowHeight)
        overscan == Max(1, options.overscan)
        viewportHeight == Max(rowHeight, options.height)
        rowsPerViewport == CeilDiv(viewportHeight, rowHeight)
        maxStart == Max(0, Len(pageRows) - rowsPerViewport)
        startRowIndex == clamp((scrollTop \div rowHeight) - overscan, 0, maxStart)
        endRowIndex == clamp(startRowIndex + rowsPerViewport + overscan, 0,
                             Len(pageRows))
    IN  [visibleRows |-> slice(pageRows, startRowIndex, endRowIndex),
         startRowIndex |-> startRowIndex,
         endRowIndex |-> endRowIndex,
         topPad |-> startRowIndex * rowHeight,
         bottomPad |-> Max(0, (Len(pageRows) - endRowIndex) * rowHeight)]

\* #computeVirtualWindow(pageRows) for state.scrollTop and options.virtualization.
VirtualWindow(pageRows, scrollTop, options) ==
  IF ~options.enabled THEN
    [visibleRows |-> pageRows, startRowIndex |-> 0, endRowIndex |-> Len(pageRows),
     topPad |-> 0, bottomPad |-> 0]
  ELSE
    LET rowHeight == Max(24, options.rowHeight)
        overscan == Max(1, options.overscan)
        viewportHeight == Max(rowHeight, options.height)
        rowsPerViewport == CeilDiv(viewportHeight, rowHeight)
        maxStart == Max(0, Len(pageRows) - rowsPerViewport)
        startRowIndex == clamp((scrollTop \div rowHeight) - overscan, 0, maxStart)
        endRowIndex == clamp(startRowIndex + rowsPerViewport + overscan * 2, 0,
                             Len(pageRows))
    IN  [visibleRows |-> slice(pageRows, startRowIndex, endRowIndex),
         startRowIndex |-> startRowIndex,
         endRowIndex |-> endRowIndex,
         topPad |-> startRowIndex * rowHeight,
         bottomPad |-> Max(0, (Len(pageRows) - endRowIndex) * rowHeight)]

\* #computeVirtualWindow under the default options the table model runs with.
ComputeVirtualWindow(pageRows, scrollTop) ==
  VirtualWindow(pageRows, scrollTop, DefaultVirtualization)

\* #render lines 1029-1032: the render result of one pass.
RenderResultOf(base, window) ==
  [totalCount |-> base.totalCount, filteredCount |-> base.filteredCount,
   pageRows |-> base.pageRows, visibleRows |-> window.visibleRows,
   page |-> base.page, totalPages |-> base.totalPages,
   startRowIndex |-> window.startRowIndex, endRowIndex |-> window.endRowIndex,
   topPad |-> window.topPad, bottomPad |-> window.bottomPad]


(***************************************************************************)
(* State.  The engine variables are the QueryEngine instance (the table's  *)
(* own engine under Spec, an engine on its own under SpecEngine); runParams *)
(* and runResult record the last direct call of run and what it returned.  *)
(* The other variables are the fields of one BetterDataTable instance, its *)
(* persistence medium, the fetches and the animation frame it has asked    *)
(* for, and what its last handler emitted.                                 *)
(***************************************************************************)
VARIABLES
  engineRows,           \* QueryEngine.rows
  engineColumns,        \* QueryEngine.columns
  engineCaseSensitive,  \* QueryEngine.caseSensitive
  runDone,              \* a direct call of run has returned
  runParams,            \* the parameters of that call
  runResult,            \* what it returned
  serverEnabled,        \* options.server.enabled
  state,                \* this.state: search, sort, page, pageSize, scrollTop
  store,                \* the record persisted under the table's key, if any
  serverSnapshot,       \* this.serverSnapshot
  snapshotToken,        \* token of the request whose response the snapshot holds
  requestToken,         \* this.requestToken
  inflight,             \* the fetches not yet settled: the token and query of each
  answered,             \* the fetch issued with the current token has resolved
  lastSettled,          \* the fetch that settled last: its token and its outcome
  renderToken,          \* this.renderToken
  frames,               \* animation-frame callbacks scheduled and not yet run
  pendingReasons,       \* this.pendingReasons
  requestedReasons,     \* reasons passed to requestRender since the last pass
  renderResult,         \* this.renderResult
  destroyed,            \* destroy() has been called
  searchTimer,          \* the debounce timer of the search input
  emitted,              \* the #emit calls of the last handler, in order
  calls,                \* API calls and DOM events so far
  sortingMulti,         \* options.sorting.multi
  sortHistory,          \* the setSort and toggleSort calls so far, each with the
                        \* sort list it found
  windowDone,           \* a direct computation of the virtual window has returned
  windowInput,          \* its page rows, scroll offset and virtualization options
  windowResult,         \* what it returned
  defaultsStateKey,     \* DEFAULT_OPTIONS.state.key
  constructLog,         \* the constructor calls so far, each with its root, its
                        \* options, the key it derived and how it ended
  savedBy,              \* for each key written in the persistence medium, the
                        \* table that wrote it last
  storeEnabled,         \* StateStore.enabled
  storage,              \* StateStore.storage: the medium and the text under the key
  storeLog,             \* the load, save and clear calls so far, each with its
                        \* argument and how it ended
  security,             \* options.security: allowUnsafeHtml, and whether a
                        \* sanitizer is configured
  columnRender,         \* what the render callback of each column does
  bodyCells,            \* the rows of cells in the table body
  adapterInstances,     \* the jQuery adapter's instance map: for each element 0, or
                        \* the number of the table constructed on it last
  adapterCall,          \* the last call of $.fn.betterDataTable and how it ended
  runLog,               \* the calls of run since the last setRows, each with its
                        \* parameters and its result
  clock,                \* the time, in units of the timer
  debounceTimer,        \* the timer variable of a debounced function
  debounceLog           \* the calls of the debounced function and the invocations
                        \* of the function it wraps, each with its time and argument

engineVars ==
  <<engineRows, engineColumns, engineCaseSensitive, runDone, runParams, runResult>>

tableVars ==
  <<serverEnabled, state, store, serverSnapshot, snapshotToken, requestToken,
    inflight, answered, lastSettled, renderToken, frames, pendingReasons,
    requestedReasons,
    renderResult, destroyed, searchTimer, emitted, calls>>

constructVars == <<defaultsStateKey, constructLog, savedBy>>

storeVars == <<storeEnabled, storage, storeLog>>

cellVars == <<security, columnRender, bodyCells>>

adapterVars == <<adapterInstances, adapterCall>>

timerVars == <<clock, debounceTimer, debounceLog>>

restVars == <<runLog, timerVars>>

unitVars == <<storeVars, cellVars, adapterVars, restVars>>

probeVars ==
  <<sortingMulti, sortHistory, windowDone, windowInput, windowResult, constructVars,
    unitVars>>

vars == <<engineVars, tableVars, probeVars>>

NoResult ==
  [rows |-> <<>>, filteredCount |-> 0, totalCount |-> 0, totalPages |-> 0, page |-> 0]

\* No direct computation of the virtual window is under way.
WindowIdle ==
  /\ windowDone = FALSE
  /\ windowInput = [pageRows |-> <<>>, scrollTop |-> 0, options |-> DefaultVirtualization]
  /\ windowResult = VirtualWindow(<<>>, 0, DefaultVirtualization)

\* A persistence key: a text, under the page's path when derived from the
\* root's id, with a number standing for the random digits of uniqueId.
StateKey(path, text, unique) == [path |-> path, text |-> text, unique |-> unique]

\* null, as a key.
NullKey == StateKey("", "", 0)

\* The constructor calls are not followed.
ConstructIdle ==
  /\ defaultsStateKey = NullKey
  /\ constructLog = <<>>
  /\ savedBy = {}

\* What the medium holds under the key: nothing, or a text, which is the
\* JSON text of an object with the given members or is not JSON at all.
Item(kind, members) == [kind |-> kind, members |-> members]

\* A medium that holds nothing under the key.
EmptyStorage == [present |-> TRUE, item |-> Item("none", <<>>)]

\* StateStore is not called on its own.
StoreIdle ==
  /\ storeEnabled = TRUE
  /\ storage = EmptyStorage
  /\ storeLog = <<>>

\* What column.render does: nothing is configured (kind "none"), or a
\* callback that, for the first row of the page or for all rows (scope),
\* returns a string, {text}, {html}, {text, html} or a DOM node, or throws;
\* for the other rows it returns a string.
Callback(kind, scope) == [kind |-> kind, scope |-> scope]

\* DEFAULT_OPTIONS.security
DefaultSecurity == [allowUnsafeHtml |-> FALSE, sanitizer |-> FALSE]

\* The columns have no render callback and the body is not followed.
CellsIdle ==
  /\ security = DefaultSecurity
  /\ columnRender = [id \in {"name", "score"} |-> Callback("none", "all")]
  /\ bodyCells = <<>>

\* The elements of the page the adapter is called on, in document order.
Elements == <<"e1", "e2", "e3">>

\* What a call of the plugin returned: the jQuery object, the table of an
\* element, null, or nothing because it threw.
Returned(kind, element, table) == [kind |-> kind, element |-> element, table |-> table]

\* A call of the plugin: its first argument, the elements matched, the
\* methods it invoked in order, whether it threw, and what it returned.
AdapterCall(name, matched, invoked, threw, returned) ==
  [name |-> name, matched |-> matched, invoked |-> invoked, threw |-> threw,
   returned |-> returned]

\* The adapter has not been called.
AdapterIdle ==
  /\ adapterInstances = [e \in {"e1", "e2", "e3"} |-> 0]
  /\ adapterCall = AdapterCall("", <<>>, <<>>, FALSE, Returned("none", "", 0))

\* debounce: `let timer = null`, and the timer once set.
TimerOff == [armed |-> FALSE, due |-> 0, args |-> ""]

TimerSet(due, args) == [armed |-> TRUE, due |-> due, args |-> args]

\* The engine's runs are not logged and no debounced function exists.
RestIdle ==
  /\ runLog = <<>>
  /\ clock = 0
  /\ debounceTimer = TimerOff
  /\ debounceLog = <<>>

UnitsIdle == StoreIdle /\ CellsIdle /\ AdapterIdle /\ RestIdle

\* No table is attached.
TableDetached ==
  /\ serverEnabled = FALSE
  /\ state = DefaultState
  /\ store = NoRecord
  /\ serverSnapshot = EmptySnapshot
  /\ snapshotToken = 0
  /\ requestToken = 0
  /\ inflight = {}
  /\ answered = FALSE
  /\ lastSettled = NoneSettled
  /\ renderToken = NoFrame
  /\ frames = 0
  /\ pendingReasons = {}
  /\ requestedReasons = {}
  /\ renderResult = EmptyRenderResult
  /\ destroyed = FALSE
  /\ searchTimer = NoTimer
  /\ emitted = <<>>
  /\ calls = 0

\* No table is attached: the engine is used on its own.
TableIdle ==
  /\ TableDetached
  /\ sortingMulti = TRUE
  /\ sortHistory = <<>>
  /\ WindowIdle
  /\ ConstructIdle
  /\ UnitsIdle

(***************************************************************************)
(* Bounds and input sets of the engine specification.                      *)
(***************************************************************************)
MaxRows == 3

MaxPage == 2

MaxPageSize == 2

\* (name, score) pairs rows are built from: names that differ only by case,
\* a name that contains another, equal and different scores, a two-digit
\* score, null and undefined scores.
RowPool ==
  { <<Str(<<"a">>), Num(10)>>, <<Str(<<"A">>), Num(10)>>,
    <<Str(<<"A", "b">>), Num(9)>>, <<Str(<<"a">>), Null>>,
    <<Str(<<"A", "b">>), Undef>> }

\* Row sets: row i carries id i, as the rows of the test suite do.
RowSets ==
  UNION { { [i \in 1..n |-> [id |-> Num(i), name |-> f[i][1], score |-> f[i][2]]] :
              f \in [1..n -> RowPool] } : n \in 0..MaxRows }

ColumnSets ==
  { <<Column("name", s, TRUE), Column("score", TRUE, t)>> : s, t \in BOOLEAN }

SearchTerms == { <<>>, <<"a">>, <<"A">>, <<"B">>, <<"1">> }

SortLists ==
  { <<SortRule(c, d)>> : c \in {"name", "score", "missing"}, d \in Directions }
  \cup { <<SortRule(c[1], d), SortRule(c[2], e)>> :
           c \in { <<"name", "score">>, <<"score", "name">>, <<"missing", "score">> },
           d \in Directions, e \in Directions }
  \cup { <<SortRule("name", "asc"), SortRule("missing", "asc"),
           SortRule("score", "desc")>> }

\* Page sizes a caller may pass that are not positive numbers, and a numeral.
OddPageSizes == { Num(0), Num(-1), Undef, Null, Str(<<"a">>), Str(<<"2">>) }

\* The calls of run the engine specification makes: searches, sorts, and
\* paginated queries over the whole range of pages.
RunInputs ==
  { Params(s, <<>>, 0, DefaultPageSize, FALSE) : s \in SearchTerms }
  \cup { Params(<<>>, r, 0, DefaultPageSize, FALSE) : r \in SortLists }
  \cup { Params(s, <<SortRule("score", "desc")>>, p, z, TRUE) :
           s \in { <<>>, <<"b">> }, p \in (-1)..MaxPage, z \in 1..MaxPageSize }
  \cup { RawParams(<<>>, <<SortRule("score", "desc")>>, p, z, TRUE) :
           p \in {1}, z \in OddPageSizes }

EngineInit ==
  /\ engineRows \in RowSets
  /\ engineColumns \in ColumnSets
  /\ engineCaseSensitive \in BOOLEAN
  /\ runDone = FALSE
  /\ runParams = Params(<<>>, <<>>, 0, DefaultPageSize, TRUE)
  /\ runResult = NoResult
  /\ TableIdle

\* A caller invokes engine.run(params) and keeps the result.
EngineRun ==
  /\ ~runDone
  /\ \E params \in RunInputs :
       \E result \in run(engineRows, engineColumns, engineCaseSensitive, params) :
         /\ runDone' = TRUE
         /\ runParams' = params
         /\ runResult' = result
  /\ UNCHANGED <<engineRows, engineColumns, engineCaseSensitive>>
  /\ UNCHANGED <<tableVars, probeVars>>

EngineNext == EngineRun

SpecEngine == EngineInit /\ [][EngineNext]_vars

(***************************************************************************)
(* Properties of QueryEngine.run, checked under SpecEngine.                *)
(***************************************************************************)
Range(seq) == { seq[i] : i \in 1..Len(seq) }

\* The text form of a row's value for a column, with the engine's case rule.
CellText(row, column) ==
  LET text == toText(getValue(column, row))
  IN  IF engineCaseSensitive THEN text ELSE toLowerCase(text)

SearchTerm ==
  IF engineCaseSensitive THEN runParams.search ELSE toLowerCase(runParams.search)

\* Some searchable column's text form contains the search term.
ContainsTerm(row) ==
  \E i \in 1..Len(engineColumns) :
    /\ engineColumns[i].searchable
    /\ includes(CellText(row, engineColumns[i]), SearchTerm)

Retained(row) == runParams.search = <<>> \/ ContainsTerm(row)

\* C4: run retains a row iff the text form of the value of at least one
\* searchable column contains the search term as a substring (both
\* lower-cased unless caseSensitive); an empty search retains every row.
C4_Filtering ==
  runDone =>
    /\ runResult.filteredCount =
         Cardinality({ i \in 1..Len(engineRows) : Retained(engineRows[i]) })
    /\ ~runParams.pagination =>
         \A i \in 1..Len(engineRows) :
           (engineRows[i] \in Range(runResult.rows)) <=> Retained(engineRows[i])

\* A case-insensitive search kept a row whose text holds the term only after
\* lower-casing, and dropped another row.
C4_Witness ==
  /\ runDone
  /\ ~engineCaseSensitive
  /\ runParams.search # <<>>
  /\ ~runParams.pagination
  /\ \E i, j \in 1..Len(engineRows) :
       /\ engineRows[i] \in Range(runResult.rows)
       /\ \A k \in 1..Len(engineColumns) :
            ~includes(toText(getValue(engineColumns[k], engineRows[i])),
                      runParams.search)
       /\ engineRows[j] \notin Range(runResult.rows)

\* The rules of the last call that run honors: known, sortable columns.
Honored(rule) ==
  /\ HasColumn(engineColumns, rule.id)
  /\ columnById(engineColumns, rule.id).sortable

RuleDirection(rule) == IF rule.direction = "desc" THEN "desc" ELSE "asc"

\* How rule k of the last call compares two rows.
KeyCompare(k, rowA, rowB) ==
  LET rule == runParams.sort[k]
      column == columnById(engineColumns, rule.id)
  IN  compareValues(getValue(column, rowA), getValue(column, rowB),
                    RuleDirection(rule))

\* Rule k is the first honored rule on which the two rows' keys differ.
FirstDifference(k, rowA, rowB) ==
  /\ Honored(runParams.sort[k])
  /\ KeyCompare(k, rowA, rowB) # 0
  /\ \A m \in 1..(k - 1) :
       Honored(runParams.sort[m]) => KeyCompare(m, rowA, rowB) = 0

\* C5: the rows run returns are ordered by the rules in priority order: of
\* two result rows the earlier one does not compare after the later one
\* under the first rule on which their keys differ.
C5_SortOrder ==
  (runDone /\ ~runParams.pagination) =>
    \A i, j \in 1..Len(runResult.rows) :
      i < j =>
        \A k \in 1..Len(runParams.sort) :
          FirstDifference(k, runResult.rows[i], runResult.rows[j]) =>
            KeyCompare(k, runResult.rows[i], runResult.rows[j]) < 0

\* The two rows tie under every honored rule of the last call.
KeysEqual(rowA, rowB) ==
  \A k \in 1..Len(runParams.sort) :
    Honored(runParams.sort[k]) => KeyCompare(k, rowA, rowB) = 0

HasPrimary == \E k \in 1..Len(runParams.sort) : Honored(runParams.sort[k])

PrimaryIndex ==
  CHOOSE k \in 1..Len(runParams.sort) :
    /\ Honored(runParams.sort[k])
    /\ \A m \in 1..(k - 1) : ~Honored(runParams.sort[m])

PrimaryKey(row) ==
  getValue(columnById(engineColumns, runParams.sort[PrimaryIndex].id), row)

NullAfterValue(i, j) ==
  /\ IsNullish(PrimaryKey(runResult.rows[j]))
  /\ ~IsNullish(PrimaryKey(runResult.rows[i]))

FullResults ==
  run(engineRows, engineColumns, engineCaseSensitive,
      Params(runParams.search, runParams.sort, 0, DefaultPageSize, FALSE))

\* n = ceil(count / size), stated without division.
IsCeilDiv(n, count, size) ==
  /\ n * size >= count
  /\ (n - 1) * size < count

\* C8: with pagination enabled and pageSize > 0, totalPages is
\* ceil(filteredCount / pageSize), page is max(0, min(requested, totalPages - 1))
\* and rows is the slice [page * pageSize, page * pageSize + pageSize) of the
\* filtered, sorted rows.
C8_Pagination ==
  (runDone /\ runParams.pagination /\ IsPositive(runParams.pageSize)) =>
    /\ IF runResult.filteredCount = 0 THEN runResult.totalPages = 0
       ELSE IsCeilDiv(runResult.totalPages, runResult.filteredCount,
                      NumberOf(runParams.pageSize).n)
    /\ runResult.page = Max(0, Min(runParams.page, runResult.totalPages - 1))
    /\ \E full \in FullResults :
         /\ full.filteredCount = runResult.filteredCount
         /\ Len(runResult.rows) =
              Max(0, Min(NumberOf(runParams.pageSize).n,
                         full.filteredCount
                           - runResult.page * NumberOf(runParams.pageSize).n))
         /\ \A k \in 1..Len(runResult.rows) :
              runResult.rows[k] =
                full.rows[runResult.page * NumberOf(runParams.pageSize).n + k]

\* A page beyond the range was clamped to the last page, which is short.
C8_Witness ==
  /\ runDone
  /\ runParams.pagination
  /\ runParams.pageSize = Num(2)
  /\ runParams.page > runResult.totalPages - 1
  /\ runResult.filteredCount = 3
  /\ runResult.page = 1
  /\ Len(runResult.rows) = 1

\* The last call with the rules run does not honor taken out of its list.
WithoutIgnoredRules ==
  [runParams EXCEPT !.sort = SelectSeq(runParams.sort, Honored)]

\* C25: rules that name an unknown column or a column with sortable: false
\* are ignored: run returns what it returns for the list without them.
C25_IgnoredRulesChangeNothing ==
  (runDone /\ \E k \in 1..Len(runParams.sort) : ~Honored(runParams.sort[k])) =>
    \E same \in { run(engineRows, engineColumns, engineCaseSensitive,
                      WithoutIgnoredRules) } :
      /\ runResult \in same
      /\ run(engineRows, engineColumns, engineCaseSensitive, runParams) = same

\* A list with an ignored rule between two honored ones reordered the rows.
C25_Witness ==
  /\ runDone
  /\ Len(runParams.sort) = 3
  /\ Honored(runParams.sort[1])
  /\ ~Honored(runParams.sort[2])
  /\ Honored(runParams.sort[3])
  /\ Len(runResult.rows) = 3
  /\ runResult.rows # engineRows

\* C26: a page size that is zero, negative or not a number counts as 25:
\* totalPages is ceil(filteredCount / 25), the page is clamped into its range
\* and rows is the slice of at most 25 rows that starts at page * 25.
C26_MalformedPageSizeIsDefault ==
  (runDone /\ runParams.pagination /\ ~IsPositive(runParams.pageSize)) =>
    /\ IF runResult.filteredCount = 0 THEN runResult.totalPages = 0
       ELSE IsCeilDiv(runResult.totalPages, runResult.filteredCount,
                      DefaultPageSize)
    /\ runResult.page = Max(0, Min(runParams.page, runResult.totalPages - 1))
    /\ Len(runResult.rows) =< DefaultPageSize
    /\ \E full \in FullResults :
         /\ full.filteredCount = runResult.filteredCount
         /\ Len(runResult.rows) =
              Max(0, Min(DefaultPageSize,
                         full.filteredCount - runResult.page * DefaultPageSize))
         /\ \A k \in 1..Len(runResult.rows) :
              runResult.rows[k] = full.rows[runResult.page * DefaultPageSize + k]

\* A call with an undefined page size and page 1 returned all three rows as
\* the only page.
C26_Witness ==
  /\ runDone
  /\ runParams.pagination
  /\ runParams.pageSize = Undef
  /\ runParams.page = 1
  /\ runResult.page = 0
  /\ runResult.totalPages = 1
  /\ Len(runResult.rows) = 3

(***************************************************************************)
(* The orchestrator: bounds and inputs of the table specification.         *)
(***************************************************************************)
MaxCalls == 2

MaxPageArg == 1

MaxLiveCalls == 1

TableColumns == <<Column("name", TRUE, TRUE), Column("score", TRUE, TRUE)>>

DataRow(i, name, score) == [id |-> Num(i), name |-> Str(name), score |-> score]

ThreeRows ==
  <<DataRow(1, <<"a">>, Num(10)), DataRow(2, <<"A">>, Num(10)),
    DataRow(3, <<"A", "b">>, Num(9))>>

DataSets == { <<>>, ThreeRows }

SearchInputs == { <<>>, <<"b">> }

PageInputs == (-1)..MaxPageArg

PageSizeInputs == { 0, 2 }

SortColumns == { "score" }

ScrollOffsets == { 0, 20, 40 }

\* What a fetch can resolve with: a page of a larger result with both
\* counts, and a short page that omits the counts.
ServerResponses ==
  { [rows |-> SubSeq(ThreeRows, 1, 2), filteredCount |-> Some(60),
     totalCount |-> Some(70)],
    [rows |-> SubSeq(ThreeRows, 3, 3), filteredCount |-> None,
     totalCount |-> None] }

\* A record a previous session may have left in the persistence medium.
StoredRecords ==
  { NoRecord, Saved([DefaultState EXCEPT !.page = 1]) }

(***************************************************************************)
(* Render scheduling.                                                      *)
(***************************************************************************)
\* Variant of requestRender that records the reason only when it schedules.
RequestRenderDropsReason(reason) ==
  IF renderToken # NoFrame
    THEN UNCHANGED <<pendingReasons, renderToken, frames>>
    ELSE /\ pendingReasons' = pendingReasons \cup {reason}
         /\ renderToken' = FrameHandle
         /\ frames' = frames + 1

\* requestRender(reason)
RequestRender(reason) ==
  /\ pendingReasons' = pendingReasons \cup {reason}
  /\ IF renderToken # NoFrame
       THEN UNCHANGED <<renderToken, frames>>
       ELSE /\ renderToken' = FrameHandle
            /\ frames' = frames + 1

\* A handler that calls requestRender(reason).
RenderRequested(reason) ==
  /\ RequestRender(reason)
  /\ requestedReasons' = requestedReasons \cup {reason}

NoRenderRequested ==
  UNCHANGED <<pendingReasons, renderToken, frames, requestedReasons>>

\* reload() lines 1125-1131: build the query, take the next token, start the fetch.
QueryIssued(st) ==
  /\ requestToken' = requestToken + 1
  /\ inflight' = inflight \cup { Request(requestToken + 1, BuildServerQuery(st)) }
  /\ answered' = FALSE
  /\ UNCHANGED lastSettled

NoQueryIssued == UNCHANGED <<requestToken, inflight, answered, lastSettled>>

\* The tail shared by setSearch, setPage, setPageSize, setSort and
\* toggleSort: persist, emit stateChange, then reload or request a render.
Mutated(reason, next) ==
  /\ state' = next
  /\ store' = Saved(next)
  /\ IF ShouldQueryServer(serverEnabled, reason)
       THEN /\ QueryIssued(next)
            /\ NoRenderRequested
            /\ emitted' = <<StateChange(reason, next),
                            BeforeQuery(BuildServerQuery(next), requestToken + 1)>>
       ELSE /\ RenderRequested(reason)
            /\ NoQueryIssued
            /\ emitted' = <<StateChange(reason, next)>>
  /\ UNCHANGED <<engineVars, serverEnabled, serverSnapshot, snapshotToken,
                 renderResult, destroyed>>

(***************************************************************************)
(* The public API.                                                         *)
(***************************************************************************)
\* setData(rows, {preservePage, emitEvent})
SetData(rows, preservePage, emitEvent) ==
  /\ engineRows' = rows
  /\ state' = IF preservePage THEN state
              ELSE [state EXCEPT !.page = 0, !.scrollTop = 0]
  /\ emitted' = IF emitEvent THEN <<DataLoaded(Len(rows))>> ELSE <<>>
  /\ RenderRequested("set-data")
  /\ NoQueryIssued
  /\ UNCHANGED <<engineColumns, engineCaseSensitive, runDone, runParams, runResult,
                 serverEnabled, store, serverSnapshot, snapshotToken,
                 renderResult, destroyed, searchTimer>>

\* reload({preservePage})
Reload(preservePage) ==
  LET next == IF preservePage THEN state ELSE [state EXCEPT !.page = 0]
  IN  /\ state' = next
      /\ IF ~serverEnabled
           THEN /\ RenderRequested("reload")
                /\ NoQueryIssued
                /\ emitted' = <<>>
           ELSE /\ QueryIssued(next)
                /\ NoRenderRequested
                /\ emitted' = <<BeforeQuery(BuildServerQuery(next), requestToken + 1)>>
      /\ UNCHANGED <<engineVars, serverEnabled, store, serverSnapshot, snapshotToken,
                     renderResult, destroyed, searchTimer>>

\* setSearch(search)
SetSearchCall(search) ==
  Mutated("search", [state EXCEPT !.search = search, !.page = 0, !.scrollTop = 0])

SetSearch(search) ==
  /\ SetSearchCall(search)
  /\ UNCHANGED searchTimer

\* Variant of setPage that stores the page as given.
SetPageNoClamp(page) ==
  /\ Mutated("page", [state EXCEPT !.page = page, !.scrollTop = 0])
  /\ UNCHANGED searchTimer

\* setPage(page)
SetPage(page) ==
  /\ Mutated("page", [state EXCEPT !.page = Max(0, page), !.scrollTop = 0])
  /\ UNCHANGED searchTimer

\* setPageSize(pageSize)
SetPageSize(pageSize) ==
  LET nextSize == IF pageSize > 0 THEN pageSize ELSE DefaultPageSize
  IN  /\ Mutated("page-size",
                 [state EXCEPT !.pageSize = nextSize, !.page = 0, !.scrollTop = 0])
      /\ UNCHANGED searchTimer

\* Variant of setSort that moves an updated rule to the end of the list.
SortAfterSetMovesToEnd(sort, columnId, direction, add) ==
  LET normalized == IF direction = "desc" THEN "desc" ELSE "asc"
      others == SelectSeq(sort, LAMBDA rule : rule.id # columnId)
  IN  IF ~add \/ ~sortingMulti THEN <<SortRule(columnId, normalized)>>
      ELSE Append(others, SortRule(columnId, normalized))

\* setSort lines 1221-1232: the sort list after the call.
SortAfterSet(sort, columnId, direction, add) ==
  LET normalized == IF direction = "desc" THEN "desc" ELSE "asc"
  IN  IF ~add \/ ~sortingMulti THEN <<SortRule(columnId, normalized)>>
      ELSE IF \E i \in 1..Len(sort) : sort[i].id = columnId
        THEN [i \in 1..Len(sort) |->
                IF i = (CHOOSE k \in 1..Len(sort) :
                          /\ sort[k].id = columnId
                          /\ \A m \in 1..(k - 1) : sort[m].id # columnId)
                  THEN SortRule(columnId, normalized) ELSE sort[i]]
      ELSE Append(sort, SortRule(columnId, normalized))

\* setSort(columnId, direction, {add})
SetSortCall(columnId, direction, add) ==
  Mutated("sort", [state EXCEPT !.sort = SortAfterSet(state.sort, columnId,
                                                      direction, add),
                                !.page = 0])

SetSort(columnId, direction, add) ==
  /\ SetSortCall(columnId, direction, add)
  /\ UNCHANGED searchTimer

\* Array.prototype.filter keeping the rules of other columns.
RECURSIVE WithoutColumn(_, _)
WithoutColumn(sort, columnId) ==
  IF sort = <<>> THEN <<>>
  ELSE (IF Head(sort).id = columnId THEN <<>> ELSE <<Head(sort)>>)
       \o WithoutColumn(Tail(sort), columnId)

\* Variant of the toggle in which a descending rule goes back to ascending.
SortAfterToggleNeverRemoves(sort, columnId, add) ==
  IF \E i \in 1..Len(sort) : sort[i].id = columnId /\ sort[i].direction = "asc"
    THEN SortAfterSet(sort, columnId, "desc", add)
    ELSE SortAfterSet(sort, columnId, "asc", add)

\* toggleSort lines 1247-1262: the sort list after the call.
SortAfterToggle(sort, columnId, add) ==
  IF ~\E i \in 1..Len(sort) : sort[i].id = columnId
    THEN SortAfterSet(sort, columnId, "asc", add)
    ELSE LET existing == sort[CHOOSE i \in 1..Len(sort) :
                                /\ sort[i].id = columnId
                                /\ \A m \in 1..(i - 1) : sort[m].id # columnId]
         IN  IF existing.direction = "asc"
               THEN SortAfterSet(sort, columnId, "desc", add)
               ELSE IF ~add \/ ~sortingMulti THEN <<>>
                    ELSE WithoutColumn(sort, columnId)

\* toggleSort(columnId, {add})
ToggleSort(columnId, add) ==
  /\ Mutated("sort", [state EXCEPT !.sort = SortAfterToggle(state.sort, columnId, add),
                                   !.page = 0])
  /\ UNCHANGED searchTimer

\* clearState()
ClearState ==
  /\ store' = NoRecord
  /\ state' = DefaultState
  /\ IF serverEnabled
       THEN /\ QueryIssued(DefaultState)
            /\ NoRenderRequested
            /\ emitted' = <<BeforeQuery(BuildServerQuery(DefaultState),
                                        requestToken + 1)>>
       ELSE /\ RenderRequested("clear-state")
            /\ NoQueryIssued
            /\ emitted' = <<>>
  /\ UNCHANGED <<engineVars, serverEnabled, serverSnapshot, snapshotToken,
                 renderResult, destroyed, searchTimer>>

(***************************************************************************)
(* The server-query lifecycle: what reload() does when its fetch settles.  *)
(***************************************************************************)
\* Variant of FetchResolve that applies the response whatever its token.
FetchResolveNoTokenCheck(request, response) ==
  /\ request \in inflight
  /\ inflight' = inflight \ {request}
  /\ answered' = (answered \/ request.token = requestToken)
  /\ lastSettled' = SettledAs(request.token, "resolved")
  /\ serverSnapshot' = SnapshotOf(response)
  /\ snapshotToken' = request.token
  /\ emitted' = <<AfterQuery(request.query, request.token, SnapshotOf(response))>>
  /\ RenderRequested("reload")
  /\ UNCHANGED <<engineVars, serverEnabled, state, store, requestToken,
                 renderResult, destroyed, searchTimer>>

\* Variant of FetchResolve that replaces the rows of the snapshot and keeps its counts.
FetchResolveKeepsCounts(request, response) ==
  /\ request \in inflight
  /\ inflight' = inflight \ {request}
  /\ answered' = (answered \/ request.token = requestToken)
  /\ lastSettled' = SettledAs(request.token, "resolved")
  /\ IF request.token # requestToken
       THEN /\ emitted' = <<>>
            /\ NoRenderRequested
            /\ UNCHANGED <<serverSnapshot, snapshotToken>>
       ELSE /\ serverSnapshot' = [serverSnapshot EXCEPT !.rows = response.rows]
            /\ snapshotToken' = request.token
            /\ emitted' = <<AfterQuery(request.query, request.token,
                                       SnapshotOf(response))>>
            /\ RenderRequested("reload")
  /\ UNCHANGED <<engineVars, serverEnabled, state, store, requestToken,
                 renderResult, destroyed, searchTimer>>

\* reload() lines 1131-1161: the fetch of request resolves with response.
FetchResolve(request, response) ==
  /\ request \in inflight
  /\ inflight' = inflight \ {request}
  /\ answered' = (answered \/ request.token = requestToken)
  /\ lastSettled' = SettledAs(request.token, "resolved")
  /\ IF request.token # requestToken
       THEN /\ emitted' = <<>>
            /\ NoRenderRequested
            /\ UNCHANGED <<serverSnapshot, snapshotToken>>
       ELSE /\ serverSnapshot' = SnapshotOf(response)
            /\ snapshotToken' = request.token
            /\ emitted' = <<AfterQuery(request.query, request.token,
                                       SnapshotOf(response))>>
            /\ RenderRequested("reload")
  /\ UNCHANGED <<engineVars, serverEnabled, state, store, requestToken,
                 renderResult, destroyed, searchTimer>>

\* Variant of FetchReject that also asks for a render.
FetchRejectRenders(request) ==
  /\ request \in inflight
  /\ inflight' = inflight \ {request}
  /\ lastSettled' = SettledAs(request.token, "rejected")
  /\ emitted' = <<QueryError(request.query, request.token)>>
  /\ RenderRequested("reload")
  /\ UNCHANGED <<engineVars, serverEnabled, state, store, serverSnapshot,
                 snapshotToken, requestToken, answered, renderResult, destroyed,
                 searchTimer>>

\* reload() lines 1162-1169: the fetch of request rejects.
FetchReject(request) ==
  /\ request \in inflight
  /\ inflight' = inflight \ {request}
  /\ lastSettled' = SettledAs(request.token, "rejected")
  /\ emitted' = <<QueryError(request.query, request.token)>>
  /\ NoRenderRequested
  /\ UNCHANGED <<engineVars, serverEnabled, state, store, serverSnapshot,
                 snapshotToken, requestToken, answered, renderResult, destroyed,
                 searchTimer>>

(***************************************************************************)
(* The animation-frame callback and the render pass it runs.               *)
(***************************************************************************)
\* requestRender lines 1087-1092 and #render: a scheduled frame callback runs.
RenderFrame ==
  /\ frames > 0
  /\ renderToken' = NoFrame
  /\ frames' = frames - 1
  /\ pendingReasons' = {}
  /\ requestedReasons' = {}
  /\ \E base \in ComputeRenderResult(serverEnabled, serverSnapshot, state,
                                     engineRows, engineColumns, engineCaseSensitive) :
     \E window \in { ComputeVirtualWindow(base.pageRows, state.scrollTop) } :
       LET next == [state EXCEPT !.page = base.page]
           result == RenderResultOf(base, window)
       IN  /\ state' = next
           /\ store' = Saved(next)
           /\ renderResult' = result
           /\ emitted' = <<BeforeRender(pendingReasons, state),
                           AfterRender(pendingReasons, result)>>
  /\ NoQueryIssued
  /\ UNCHANGED <<engineVars, serverEnabled, serverSnapshot, snapshotToken,
                 destroyed, searchTimer>>

(***************************************************************************)
(* DOM events.  Their listeners are removed by destroy().  The pager,      *)
(* header and page-size listeners only call setPage, toggleSort and        *)
(* setPageSize, which the public-API actions cover.                        *)
(***************************************************************************)
\* Variant of the scroll listener that records the offset and asks for no render.
ScrollEventWithoutRender(nextScrollTop) ==
  /\ ~destroyed
  /\ nextScrollTop # state.scrollTop
  /\ state' = [state EXCEPT !.scrollTop = nextScrollTop]
  /\ NoRenderRequested
  /\ emitted' = <<>>
  /\ NoQueryIssued
  /\ UNCHANGED <<engineVars, serverEnabled, store, serverSnapshot,
                 snapshotToken, renderResult, destroyed, searchTimer>>

\* The scroll listener of #attachCoreListeners.
ScrollEvent(nextScrollTop) ==
  LET rowHeight == Max(24, RowHeightOption)
  IN  /\ ~destroyed
      /\ nextScrollTop # state.scrollTop
      /\ state' = [state EXCEPT !.scrollTop = nextScrollTop]
      /\ IF (nextScrollTop \div rowHeight) # (state.scrollTop \div rowHeight)
           THEN RenderRequested("scroll")
           ELSE NoRenderRequested
      /\ emitted' = <<>>
      /\ NoQueryIssued
      /\ UNCHANGED <<engineVars, serverEnabled, store, serverSnapshot,
                     snapshotToken, renderResult, destroyed, searchTimer>>

\* #handleGridKeyboard for a key pressed in the rendered cell of page row `row`.
KeyboardEvent(row, key) ==
  LET rowHeight == Max(24, RowHeightOption)
      lastRow == Len(renderResult.pageRows) - 1
      nextRow == CASE key = "ArrowUp" -> Max(0, row - 1)
                   [] key = "ArrowDown" -> Min(lastRow, row + 1)
                   [] OTHER -> row
      topVisible == state.scrollTop \div rowHeight
      bottomVisible == topVisible + CeilDiv(HeightOption, rowHeight)
  IN  /\ ~destroyed
      /\ row >= renderResult.startRowIndex
      /\ row < renderResult.endRowIndex
      /\ state' = IF nextRow < topVisible \/ nextRow > bottomVisible
                    THEN [state EXCEPT !.scrollTop = nextRow * rowHeight]
                    ELSE state
      /\ RenderRequested("keyboard-nav")
      /\ emitted' = <<>>
      /\ NoQueryIssued
      /\ UNCHANGED <<engineVars, serverEnabled, store, serverSnapshot,
                     snapshotToken, renderResult, destroyed, searchTimer>>

\* utils.js debounce, the returned function: an input event (re)arms the timer.
SearchInput(value) ==
  /\ ~destroyed
  /\ searchTimer' = [armed |-> TRUE, value |-> value]
  /\ emitted' = <<>>
  /\ UNCHANGED <<engineVars, serverEnabled, state, store, serverSnapshot,
                 snapshotToken, requestToken, inflight, answered, lastSettled,
                 renderToken, frames,
                 pendingReasons, requestedReasons, renderResult, destroyed>>

\* utils.js debounce, the timer callback: setSearch with the last value.
DebounceFire ==
  /\ searchTimer.armed
  /\ searchTimer' = NoTimer
  /\ SetSearchCall(searchTimer.value)

(***************************************************************************)
(* Teardown.                                                               *)
(***************************************************************************)
\* destroy()
Destroy ==
  /\ IF renderToken # NoFrame
       THEN /\ frames' = frames - 1
            /\ renderToken' = NoFrame
       ELSE UNCHANGED <<frames, renderToken>>
  /\ destroyed' = TRUE
  /\ emitted' = <<>>
  /\ UNCHANGED <<engineVars, serverEnabled, state, store, serverSnapshot,
                 snapshotToken, requestToken, inflight, answered, lastSettled,
                 pendingReasons,
                 requestedReasons, renderResult, searchTimer>>

(***************************************************************************)
(* Construction and the table specification.                               *)
(***************************************************************************)
\* constructor and #init: load the state, setData(options.data) without a
\* dataLoaded event, and in server mode the first reload.
InitTable(modes, records, dataSets, multi) ==
  /\ serverEnabled \in modes
  /\ store \in records
  /\ state = load(store, DefaultState)
  /\ engineRows \in (IF serverEnabled THEN { <<>> } ELSE dataSets)
  /\ engineColumns = TableColumns
  /\ engineCaseSensitive = FALSE
  /\ runDone = FALSE
  /\ runParams = Params(<<>>, <<>>, 0, DefaultPageSize, TRUE)
  /\ runResult = NoResult
  /\ serverSnapshot = EmptySnapshot
  /\ snapshotToken = 0
  /\ requestToken = IF serverEnabled THEN 1 ELSE 0
  /\ inflight = IF serverEnabled
                  THEN { Request(1, BuildServerQuery(state)) } ELSE {}
  /\ answered = FALSE
  /\ lastSettled = NoneSettled
  /\ renderToken = FrameHandle
  /\ frames = 1
  /\ pendingReasons = {"set-data"}
  /\ requestedReasons = {"set-data"}
  /\ renderResult = EmptyRenderResult
  /\ destroyed = FALSE
  /\ searchTimer = NoTimer
  /\ calls = 0
  /\ sortingMulti \in multi
  /\ sortHistory = <<>>
  /\ WindowIdle
  /\ ConstructIdle
  /\ emitted = <<LifecycleEvent("beforeInit")>>
               \o (IF serverEnabled
                     THEN <<BeforeQuery(BuildServerQuery(state), 1)>> ELSE <<>>)
               \o <<LifecycleEvent("afterInit")>>

\* The table after construction, with StateStore and the cells not followed.
InitWith(modes, records, dataSets, multi) ==
  InitTable(modes, records, dataSets, multi) /\ UnitsIdle

Init == InitWith(BOOLEAN, StoredRecords, DataSets, {TRUE})

\* A stimulus from outside (an API call by the page's code, or an event the
\* browser dispatches to a listener), counted against the bound on their number.
External(A) ==
  /\ calls < MaxCalls
  /\ calls' = calls + 1
  /\ A
  /\ UNCHANGED probeVars

\* A continuation the event loop runs: a settled fetch, a frame, a timer.
Internal(A) ==
  /\ A
  /\ UNCHANGED <<calls, probeVars>>

Next ==
  \/ \E preservePage \in BOOLEAN : External(SetData(ThreeRows, preservePage, TRUE))
  \/ \E preservePage \in BOOLEAN : External(Reload(preservePage))
  \/ \E search \in SearchInputs : External(SetSearch(search))
  \/ \E page \in PageInputs : External(SetPage(page))
  \/ \E pageSize \in PageSizeInputs : External(SetPageSize(pageSize))
  \/ \E c \in SortColumns, d \in Directions, add \in BOOLEAN :
       External(SetSort(c, d, add))
  \/ \E c \in SortColumns, add \in BOOLEAN : External(ToggleSort(c, add))
  \/ External(ClearState)
  \/ External(Destroy)
  \/ \E offset \in ScrollOffsets : External(ScrollEvent(offset))
  \/ \E row \in 0..(Len(ThreeRows) - 1), key \in {"ArrowUp", "ArrowDown", "ArrowLeft"} :
       External(KeyboardEvent(row, key))
  \/ \E value \in SearchInputs \ { <<>> } : External(SearchInput(value))
  \/ \E request \in inflight, response \in ServerResponses :
       Internal(FetchResolve(request, response))
  \/ \E request \in inflight : Internal(FetchReject(request))
  \/ Internal(RenderFrame)
  \/ Internal(DebounceFire)

Spec == Init /\ [][Next]_vars

\* The table followed for a shorter run of outside stimuli, under the
\* browser's guarantee that an animation-frame callback that stays scheduled
\* is eventually run.
LiveNext == Next /\ calls' =< MaxLiveCalls

SpecLive == Init /\ [][LiveNext]_vars /\ WF_vars(Internal(RenderFrame))

\* The table followed over a wider range of what reaches it from outside:
\* responses that carry one count only, and a stored record whose page, page
\* size and scroll offset are out of range.
MaxWideCalls == 1

OneCountResponses ==
  { [rows |-> SubSeq(ThreeRows, 1, 2), filteredCount |-> Some(60),
     totalCount |-> None],
    [rows |-> SubSeq(ThreeRows, 1, 2), filteredCount |-> None,
     totalCount |-> Some(70)] }

AnyRecords ==
  StoredRecords
    \cup { Saved([DefaultState EXCEPT !.page = -1, !.pageSize = 0, !.scrollTop = -5]) }

WideNext ==
  /\ \/ Next
     \/ \E request \in inflight, response \in OneCountResponses :
          Internal(FetchResolve(request, response))
  /\ calls' =< MaxWideCalls

SpecWide == InitWith(BOOLEAN, AnyRecords, DataSets, {TRUE}) /\ [][WideNext]_vars

(***************************************************************************)
(* Properties of the table: server queries, rendering and teardown.        *)
(***************************************************************************)
\* The events of the given type among those a step emitted.
EventsOf(events, type) ==
  { events[i] : i \in { j \in 1..Len(events) : events[j].type = type } }

\* A render pass ran in the step that led to this state.
RenderPassRan == EventsOf(emitted, "beforeRender") # {}

\* C1: last request wins.  Once the fetch of the current token has resolved the
\* snapshot holds that token's response, and a step replaces the snapshot or
\* emits afterQuery only when the fetch it settles carries the current token,
\* whatever the order in which the fetches complete.
C1_LastRequestWins ==
  /\ [](answered => snapshotToken = requestToken)
  /\ [][(\/ serverSnapshot' # serverSnapshot
         \/ snapshotToken' # snapshotToken
         \/ EventsOf(emitted', "afterQuery") # {})
        => /\ requestToken' = requestToken
           /\ lastSettled' = SettledAs(requestToken, "resolved")
           /\ snapshotToken' = requestToken
           /\ \A e \in EventsOf(emitted', "afterQuery") :
                /\ e.token = requestToken
                /\ \E r \in inflight \ inflight' :
                     r.token = requestToken /\ r.query = e.query]_vars

\* C1: the fetch of token 1 resolved after token 2 was issued and had resolved,
\* and the snapshot is the one token 2's response produced.
C1_Witness ==
  /\ requestToken = 2
  /\ answered
  /\ lastSettled = SettledAs(1, "resolved")
  /\ snapshotToken = 2
  /\ serverSnapshot # EmptySnapshot

\* C2: render coalescing.  At most one frame callback is scheduled at a time,
\* one is scheduled whenever a reason is pending on a live table, and a render
\* pass consumes the one scheduled frame and is given exactly the reasons
\* requested since the previous pass.
C2_RenderCoalescing ==
  /\ [](/\ frames <= 1
        /\ (renderToken # NoFrame) <=> (frames = 1)
        /\ pendingReasons = requestedReasons
        /\ (requestedReasons # {} /\ ~destroyed) => frames = 1)
  /\ [][EventsOf(emitted', "beforeRender") # {}
        => /\ frames = 1 /\ frames' = 0
           /\ requestedReasons # {}
           /\ requestedReasons' = {}
           /\ Len(emitted') = 2
           /\ emitted'[1].type = "beforeRender"
           /\ emitted'[1].reason = requestedReasons
           /\ emitted'[2].type = "afterRender"
           /\ emitted'[2].reason = requestedReasons]_vars

\* C2: one render pass ran for two requests with different reasons.
C2_Witness ==
  /\ RenderPassRan
  /\ \E e \in EventsOf(emitted, "beforeRender") : Cardinality(e.reason) >= 2
  /\ frames = 0

\* C3: after destroy no render pass runs again.
C3_NoRenderAfterDestroy ==
  destroyed => /\ ~RenderPassRan
               /\ EventsOf(emitted, "afterRender") = {}

\* C9: a rejected fetch emits exactly one query error carrying its query and
\* token, leaves the snapshot and the interaction state as they were, requests
\* no render and issues no query.
C9_QueryFailure ==
  [][(lastSettled' # lastSettled /\ lastSettled'.outcome = "rejected")
     => /\ \E r \in inflight \ inflight' :
             /\ r.token = lastSettled'.token
             /\ emitted' = <<QueryError(r.query, r.token)>>
        /\ serverSnapshot' = serverSnapshot
        /\ snapshotToken' = snapshotToken
        /\ state' = state
        /\ store' = store
        /\ UNCHANGED <<pendingReasons, requestedReasons, renderToken, frames>>
        /\ requestToken' = requestToken
        /\ inflight' \subseteq inflight]_vars

\* C9: the fetch of the current token was rejected and its error event emitted.
C9_Witness ==
  /\ lastSettled = SettledAs(requestToken, "rejected")
  /\ EventsOf(emitted, "error") # {}
  /\ Len(emitted) = 1

\* C10: a fetch that settles after a newer query was issued changes nothing
\* and emits nothing.
C10_SupersededHasNoEffect ==
  [][(lastSettled' # lastSettled /\ lastSettled'.token # requestToken)
     => /\ emitted' = <<>>
        /\ serverSnapshot' = serverSnapshot
        /\ snapshotToken' = snapshotToken
        /\ state' = state
        /\ UNCHANGED <<pendingReasons, requestedReasons, renderToken, frames>>]_vars

\* The snapshots an accepted response can produce.
ResponseSnapshots == { SnapshotOf(response) : response \in ServerResponses }

\* A render for an accepted response is outstanding while the snapshot is s.
AwaitsRender(s) == serverSnapshot = s /\ "reload" \in requestedReasons

\* The render pass that just ran showed the rows and counts of snapshot s.
Showed(s) ==
  /\ RenderPassRan
  /\ renderResult.pageRows = s.rows
  /\ renderResult.visibleRows = s.rows
  /\ renderResult.filteredCount = s.filteredCount
  /\ renderResult.totalCount = s.totalCount

\* The snapshot is whole: all its fields come from one response; and the step
\* that accepts a response installs its snapshot and requests a render.
SnapshotWhole ==
  /\ [](serverSnapshot \in ResponseSnapshots \cup {EmptySnapshot})
  /\ [][(/\ lastSettled' # lastSettled
         /\ lastSettled' = SettledAs(requestToken, "resolved"))
        => /\ \E request \in inflight \ inflight', response \in ServerResponses :
                /\ request.token = requestToken
                /\ serverSnapshot' = SnapshotOf(response)
                /\ emitted' = <<AfterQuery(request.query, request.token,
                                           SnapshotOf(response))>>
           /\ "reload" \in pendingReasons'
           /\ frames' = 1]_vars

\* C11 as stated: an accepted response is installed whole and a render pass
\* showing its rows follows unless the table is destroyed first.
C11_AcceptedIsShown ==
  /\ SnapshotWhole
  /\ \A s \in ResponseSnapshots : AwaitsRender(s) ~> (Showed(s) \/ destroyed)

\* C11: an accepted response is installed whole and a render is requested; a
\* render pass showing its rows follows unless the table is destroyed or a
\* later response replaces the snapshot before the frame runs.
C11_AcceptedIsShownUnlessReplaced ==
  /\ SnapshotWhole
  /\ \A s \in ResponseSnapshots :
       AwaitsRender(s) ~> (Showed(s) \/ destroyed \/ serverSnapshot # s)

\* C11: a render pass showed the response the current token's fetch resolved
\* with, counts taken from the response.
C11_Witness ==
  /\ answered
  /\ snapshotToken = requestToken
  /\ serverSnapshot.filteredCount = 60
  /\ Showed(serverSnapshot)
  /\ ~destroyed

\* The positions of the events of the given type among those a step emitted.
PositionsOf(events, type) == { i \in 1..Len(events) : events[i].type = type }

\* The step is a call of one of the mutators, from the page's code or from the
\* debounced search input.
MutatorCall ==
  \/ \E search \in SearchInputs : External(SetSearch(search))
  \/ \E page \in PageInputs : External(SetPage(page))
  \/ \E pageSize \in PageSizeInputs : External(SetPageSize(pageSize))
  \/ \E c \in SortColumns, d \in Directions, add \in BOOLEAN :
       External(SetSort(c, d, add))
  \/ \E c \in SortColumns, add \in BOOLEAN : External(ToggleSort(c, add))
  \/ Internal(DebounceFire)

\* The step persisted the new interaction state and then emitted one
\* stateChange carrying that record, ahead of any query it issued.
PersistedThenAnnounced ==
  /\ store' = Saved(getState(state'))
  /\ Cardinality(PositionsOf(emitted', "stateChange")) = 1
  /\ emitted'[1].type = "stateChange"
  /\ emitted'[1].state = store'.rec

\* C12: every call of setSearch, setPage, setPageSize, setSort, toggleSort or
\* clearState persists the new state and emits exactly one stateChange whose
\* state is the persisted record, before it reloads or requests a render.
C12_MutatorsPersistThenAnnounce ==
  [][(MutatorCall \/ External(ClearState)) => PersistedThenAnnounced]_vars

\* The same for the five mutators other than clearState.
C12_FiveMutatorsPersistThenAnnounce ==
  [][MutatorCall => PersistedThenAnnounced]_vars

\* The step issued exactly one server query, carrying the state it left.
OneQueryWithNewState ==
  /\ requestToken' = requestToken + 1
  /\ inflight' = inflight \cup { Request(requestToken', BuildServerQuery(state')) }
  /\ Cardinality(PositionsOf(emitted', "beforeQuery")) = 1

\* The step issued no server query and requested a render.
RenderInsteadOfQuery ==
  /\ requestToken' = requestToken
  /\ inflight' = inflight
  /\ PositionsOf(emitted', "beforeQuery") = {}
  /\ pendingReasons' # pendingReasons \/ pendingReasons' \ {"reload"} # {}
  /\ renderToken' # NoFrame

\* A call of setData.
SetDataCall == \E preservePage \in BOOLEAN : External(SetData(ThreeRows, preservePage, TRUE))

\* C13: in server mode setSearch, setSort, toggleSort, setPage and
\* setPageSize each issue exactly one query with the post-mutation state, and
\* clearState and setData issue none and request a render; in client mode no
\* mutator issues a query.
C13_QueriesOnlyForFourMutations ==
  [][/\ (MutatorCall /\ serverEnabled) => OneQueryWithNewState
     /\ (MutatorCall /\ ~serverEnabled) => RenderInsteadOfQuery
     /\ (External(ClearState) \/ SetDataCall) => RenderInsteadOfQuery]_vars

\* The same without clearState.
C13_QueriesExceptClearState ==
  [][/\ (MutatorCall /\ serverEnabled) => OneQueryWithNewState
     /\ (MutatorCall /\ ~serverEnabled) => RenderInsteadOfQuery
     /\ (External(ClearState) /\ ~serverEnabled) => RenderInsteadOfQuery
     /\ SetDataCall => RenderInsteadOfQuery]_vars

\* The interaction-state fields named in the set are the same after the step.
Keeps(fields) == \A f \in fields : state'[f] = state[f]

\* C14: the page and scroll resets of the mutators and the fields each one
\* leaves alone.  setSearch, setPageSize, setSort, toggleSort and clearState
\* leave page 0; setPage(p) leaves max(0, p); setSearch, setPage and
\* setPageSize leave scrollTop 0; setSort and toggleSort keep search, pageSize
\* and scrollTop; setSearch keeps sort and pageSize; setPage keeps search,
\* sort and pageSize.
C14_MutatorFrames ==
  [][/\ \A search \in SearchInputs :
          (External(SetSearch(search))
             \/ (searchTimer.value = search /\ Internal(DebounceFire)))
          => /\ state'.search = search
             /\ state'.page = 0 /\ state'.scrollTop = 0
             /\ Keeps({"sort", "pageSize"})
     /\ \A page \in PageInputs :
          External(SetPage(page))
          => /\ state'.page = Max(0, page)
             /\ state'.scrollTop = 0
             /\ Keeps({"search", "sort", "pageSize"})
     /\ \A pageSize \in PageSizeInputs :
          External(SetPageSize(pageSize))
          => /\ state'.page = 0 /\ state'.scrollTop = 0
             /\ Keeps({"search", "sort"})
     /\ ((\E c \in SortColumns, d \in Directions, add \in BOOLEAN :
            External(SetSort(c, d, add)))
         \/ (\E c \in SortColumns, add \in BOOLEAN : External(ToggleSort(c, add))))
          => /\ state'.page = 0
             /\ Keeps({"search", "pageSize", "scrollTop"})
     /\ External(ClearState) => state'.page = 0]_vars

\* C14: setSort or toggleSort was called on a scrolled table and left page 0
\* with the scroll offset as it was.
C14_Witness ==
  /\ calls = 2
  /\ Len(emitted) >= 1
  /\ emitted[1].type = "stateChange"
  /\ emitted[1].reason = "sort"
  /\ state.sort # <<>>
  /\ state.page = 0
  /\ state.scrollTop = 40
  /\ store.rec.scrollTop = 40

(***************************************************************************)
(* The sort list under setSort and toggleSort: a client-mode table whose   *)
(* persisted record holds any of a few sort lists, driven by sort calls    *)
(* only, each call recorded with the list it found.                        *)
(***************************************************************************)
MaxSortCalls == 3

SortIds == { "name", "score" }

InitialSorts ==
  { <<>>,
    <<SortRule("score", "asc")>>,
    <<SortRule("score", "desc")>>,
    <<SortRule("name", "asc")>>,
    <<SortRule("name", "asc"), SortRule("score", "desc")>>,
    <<SortRule("score", "asc"), SortRule("name", "desc")>> }

SortRecords == { Saved([DefaultState EXCEPT !.sort = sort]) : sort \in InitialSorts }

SortInit == InitWith({FALSE}, SortRecords, {ThreeRows}, BOOLEAN)

SortCall(op, id, direction, add, before) ==
  [op |-> op, id |-> id, direction |-> direction, add |-> add, before |-> before]

\* One sort call by the page's code, appended to the history.
SortStep(A, call) ==
  /\ calls < MaxSortCalls
  /\ calls' = calls + 1
  /\ A
  /\ sortHistory' = Append(sortHistory, call)
  /\ UNCHANGED <<sortingMulti, windowDone, windowInput, windowResult, constructVars,
                 unitVars>>

SortNext ==
  \/ \E c \in SortIds, add \in BOOLEAN :
       SortStep(ToggleSort(c, add), SortCall("toggleSort", c, "none", add, state.sort))
  \/ \E c \in SortIds, d \in Directions, add \in BOOLEAN :
       SortStep(SetSort(c, d, add), SortCall("setSort", c, d, add, state.sort))

SpecSort == SortInit /\ [][SortNext]_vars

\* The sort list call k of the history left behind.
SortAfterCall(k) ==
  IF k = Len(sortHistory) THEN state.sort ELSE sortHistory[k + 1].before

HasRule(sort, id) == \E i \in 1..Len(sort) : sort[i].id = id

\* Calls i, i+1 and i+2 are toggleSort of one column without the add
\* modifier, the first finding no rule for that column.
ThreeToggles(i) ==
  /\ i + 2 =< Len(sortHistory)
  /\ \A k \in i..(i + 2) :
       /\ sortHistory[k].op = "toggleSort"
       /\ sortHistory[k].id = sortHistory[i].id
       /\ ~sortHistory[k].add
  /\ ~HasRule(sortHistory[i].before, sortHistory[i].id)

\* The three toggles starting at call i took the column through asc and desc
\* back to no rule.
CycledThrough(i) ==
  LET c == sortHistory[i].id
  IN  /\ SortAfterCall(i) = <<SortRule(c, "asc")>>
      /\ SortAfterCall(i + 1) = <<SortRule(c, "desc")>>
      /\ ~HasRule(SortAfterCall(i + 2), c)

\* C15 as stated: three toggleSort(c) calls from a list with no rule for c
\* give [c asc], [c desc], then no rule for c, and the list after the third
\* is the list before the first.
C15_ToggleCycleRestoresList ==
  \A i \in 1..Len(sortHistory) :
    ThreeToggles(i)
      => CycledThrough(i) /\ SortAfterCall(i + 2) = sortHistory[i].before

\* C15: three toggleSort(c) calls from a list with no rule for c give
\* [c asc], [c desc], then the empty list, which is the list before the first
\* call exactly when that list held no rule of another column.
C15_ToggleCycleEndsEmpty ==
  \A i \in 1..Len(sortHistory) :
    ThreeToggles(i)
      => /\ CycledThrough(i)
         /\ SortAfterCall(i + 2) = <<>>
         /\ (SortAfterCall(i + 2) = sortHistory[i].before)
              <=> (sortHistory[i].before = <<>>)

\* C15: three toggles of score on a list that held a rule for name ended with
\* the empty list.
C15_Witness ==
  /\ ThreeToggles(1)
  /\ Len(sortHistory) = 3
  /\ sortHistory[1].id = "score"
  /\ sortHistory[1].before = <<SortRule("name", "asc")>>
  /\ state.sort = <<>>

\* The rules of the columns other than id, in their order.
OtherRules(sort, id) == SelectSeq(sort, LAMBDA rule : rule.id # id)

\* The position of the rule of column id in a list that has one.
RulePosition(sort, id) == CHOOSE i \in 1..Len(sort) : sort[i].id = id

\* The list `after` is `before` with the rule of column id set to direction:
\* updated where it stood, or appended when there was none.
RuleSetInPlace(before, after, id, direction) ==
  IF HasRule(before, id)
    THEN after = [before EXCEPT ![RulePosition(before, id)] = SortRule(id, direction)]
    ELSE after = Append(before, SortRule(id, direction))

\* What the last sort call did to the list it found.
LastCallChange(call, before, after) ==
  IF call.add /\ sortingMulti
    THEN /\ OtherRules(after, call.id) = OtherRules(before, call.id)
         /\ IF call.op = "setSort"
              THEN RuleSetInPlace(before, after, call.id, call.direction)
            ELSE IF ~HasRule(before, call.id)
              THEN after = Append(before, SortRule(call.id, "asc"))
            ELSE IF before[RulePosition(before, call.id)].direction = "asc"
              THEN RuleSetInPlace(before, after, call.id, "desc")
            ELSE after = OtherRules(before, call.id)
    ELSE /\ Len(after) =< 1
         /\ \A i \in 1..Len(after) : after[i].id = call.id
         /\ call.op = "setSort" => after = <<SortRule(call.id, call.direction)>>

\* C16: with the add modifier and multi-sort enabled, setSort and toggleSort
\* change only the rule of their column: appended when missing, updated in
\* place when present, removed when a desc rule is toggled, the rules of the
\* other columns keeping direction and order; otherwise the list becomes at
\* most the single rule of the column.
C16_AddChangesOneRule ==
  sortHistory # <<>>
    => LastCallChange(sortHistory[Len(sortHistory)],
                      sortHistory[Len(sortHistory)].before, state.sort)

\* C16: toggleSort with the add modifier turned the first of two rules from
\* asc to desc where it stood.
C16_Witness ==
  /\ sortingMulti
  /\ sortHistory # <<>>
  /\ LET call == sortHistory[Len(sortHistory)]
     IN  /\ call.op = "toggleSort" /\ call.add /\ call.id = "score"
         /\ call.before = <<SortRule("score", "asc"), SortRule("name", "desc")>>
  /\ state.sort = <<SortRule("score", "desc"), SortRule("name", "desc")>>

(***************************************************************************)
(* The virtual window on its own: #computeVirtualWindow applied once to a  *)
(* page of rows, a scroll offset and virtualization options drawn from     *)
(* small sets.  Rows are opaque to the window; numbers stand for them.     *)
(***************************************************************************)
MaxWindowRows == 7

WindowRowSets == { [i \in 1..n |-> i] : n \in 0..MaxWindowRows }

WindowScrollTops == { -10, 0, 25, 60, 130, 500 }

WindowOptions ==
  [enabled : BOOLEAN, height : {0, 20, 30, 60, 100}, rowHeight : {10, 24, 30},
   overscan : {0, 1, 2}]

WindowInputs ==
  [pageRows : WindowRowSets, scrollTop : WindowScrollTops, options : WindowOptions]

WindowInit ==
  /\ engineRows = <<>>
  /\ engineColumns = TableColumns
  /\ engineCaseSensitive = FALSE
  /\ runDone = FALSE
  /\ runParams = Params(<<>>, <<>>, 0, DefaultPageSize, TRUE)
  /\ runResult = NoResult
  /\ TableDetached
  /\ sortingMulti = TRUE
  /\ sortHistory = <<>>
  /\ windowDone = FALSE
  /\ windowInput \in WindowInputs
  /\ windowResult = VirtualWindow(<<>>, 0, DefaultVirtualization)
  /\ ConstructIdle
  /\ UnitsIdle

\* A render pass computes the window for the input.
WindowCompute ==
  /\ ~windowDone
  /\ windowDone' = TRUE
  /\ windowResult' = VirtualWindow(windowInput.pageRows, windowInput.scrollTop,
                                   windowInput.options)
  /\ UNCHANGED <<engineVars, tableVars, sortingMulti, sortHistory, windowInput,
                 constructVars, unitVars>>

WindowNext == WindowCompute

SpecWindow == WindowInit /\ [][WindowNext]_vars

\* The row height the window works with.
EffectiveRowHeight == Max(24, windowInput.options.rowHeight)

WindowRowCount == Len(windowInput.pageRows)

\* C17: the window lies within the page, shows exactly the rows between its
\* indices, and its paddings and shown rows add up to the height of the page.
C17_WindowInvariant ==
  windowDone =>
    /\ 0 =< windowResult.startRowIndex
    /\ windowResult.startRowIndex =< windowResult.endRowIndex
    /\ windowResult.endRowIndex =< WindowRowCount
    /\ windowResult.visibleRows
         = [i \in 1..(windowResult.endRowIndex - windowResult.startRowIndex) |->
              windowInput.pageRows[windowResult.startRowIndex + i]]
    /\ windowInput.options.enabled =>
         windowResult.topPad
           + (windowResult.endRowIndex - windowResult.startRowIndex) * EffectiveRowHeight
           + windowResult.bottomPad
         = WindowRowCount * EffectiveRowHeight
    /\ ~windowInput.options.enabled =>
         /\ windowResult.topPad = 0 /\ windowResult.bottomPad = 0
         /\ windowResult.startRowIndex = 0
         /\ windowResult.endRowIndex = WindowRowCount

\* C17: a window with rows elided above and below it.
C17_Witness ==
  /\ windowDone
  /\ windowInput.options.enabled
  /\ windowResult.startRowIndex > 0
  /\ windowResult.endRowIndex < WindowRowCount
  /\ windowResult.topPad > 0
  /\ windowResult.bottomPad > 0

\* The indices the window formulas give for an overscan and a viewport height.
WindowIndices(overscan, viewportHeight) ==
  LET rowsPerViewport == CeilDiv(viewportHeight, EffectiveRowHeight)
      start == clamp((windowInput.scrollTop \div EffectiveRowHeight) - overscan, 0,
                     Max(0, WindowRowCount - rowsPerViewport))
  IN  [startRowIndex |-> start,
       endRowIndex |-> clamp(start + rowsPerViewport + 2 * overscan, 0, WindowRowCount)]

ResultIndices ==
  [startRowIndex |-> windowResult.startRowIndex,
   endRowIndex |-> windowResult.endRowIndex]

\* C18 as stated: with virtualization enabled the indices follow the formulas
\* with the configured overscan and the configured height.
C18_WindowFromConfiguredValues ==
  (windowDone /\ windowInput.options.enabled)
    => ResultIndices = WindowIndices(windowInput.options.overscan,
                                     windowInput.options.height)

\* C18: with virtualization enabled the indices follow the formulas with the
\* overscan raised to at least 1 and the height raised to at least the row
\* height.
C18_WindowFromFlooredValues ==
  (windowDone /\ windowInput.options.enabled)
    => ResultIndices = WindowIndices(Max(1, windowInput.options.overscan),
                                     Max(EffectiveRowHeight, windowInput.options.height))

\* C18: configured with overscan 0, the window starts one row above the
\* first row in view.
C18_Witness ==
  /\ windowDone
  /\ windowInput.options.enabled
  /\ windowInput.options.overscan = 0
  /\ windowInput.options.height = 0
  /\ windowResult.startRowIndex = (windowInput.scrollTop \div EffectiveRowHeight) - 1
  /\ windowResult.startRowIndex > 0
  /\ windowResult.endRowIndex = windowResult.startRowIndex + 3

\* The first row in view, and one past the last row that can be in view.
FirstInView == windowInput.scrollTop \div EffectiveRowHeight

PastLastInView ==
  Min(WindowRowCount,
      FirstInView
        + CeilDiv(Max(EffectiveRowHeight, windowInput.options.height),
                  EffectiveRowHeight)
        + 1)

\* The scroll offset is one the scroll container can have.
InScrollRange ==
  /\ windowInput.scrollTop >= 0
  /\ windowInput.scrollTop
       =< Max(0, WindowRowCount * EffectiveRowHeight - windowInput.options.height)

\* C35: with virtualization enabled and the scroll offset within the
\* scrollable range, every row from the first row in view up to the last
\* row that can be in view lies within the window.
C35_ViewportIsRendered ==
  (windowDone /\ windowInput.options.enabled /\ InScrollRange) =>
    \A i \in FirstInView..(PastLastInView - 1) :
      windowResult.startRowIndex =< i /\ i < windowResult.endRowIndex

\* Scrolled into the third row of seven with one row per viewport: rows 2
\* and 3 are in view, the window holds rows 1 to 3 and elides rows on both
\* sides.
C35_Witness ==
  /\ windowDone
  /\ windowInput.options.enabled
  /\ InScrollRange
  /\ WindowRowCount = 7
  /\ windowInput.scrollTop = 60
  /\ FirstInView = 2
  /\ PastLastInView = 4
  /\ windowResult.startRowIndex = 1
  /\ windowResult.endRowIndex = 4

(***************************************************************************)
(* Construction.  A page constructs tables one after another, each on a    *)
(* root element of its own.  The table variables follow the first table    *)
(* constructed; of every constructor call the log keeps the root, the      *)
(* options, the persistence key derived and how the call ended.  Of the    *)
(* persistence medium only the writer of each key is followed.             *)
(***************************************************************************)
MaxConstructions == 2

\* location.pathname of the page.
PagePath == "/page"

\* A root element: its data-bdt-state-key attribute and its id ("" when it
\* has none).
Root(name, stateKeyAttr, id) == [name |-> name, stateKeyAttr |-> stateKeyAttr, id |-> id]

Roots ==
  { Root("r1", "", "orders"), Root("r2", "saved-grid", "grid"), Root("r3", "", "") }

ExplicitKey == StateKey("", "mine", 0)

\* options.state as passed: absent, {}, {key: "mine"}.
StateOptions ==
  { [given |-> FALSE, hasKey |-> FALSE, key |-> NullKey],
    [given |-> TRUE, hasKey |-> FALSE, key |-> NullKey],
    [given |-> TRUE, hasKey |-> TRUE, key |-> ExplicitKey] }

\* options.server as passed: absent, or enabled with a fetch that is a
\* function, left out, or a string.
ServerOptions ==
  { [given |-> FALSE, enabled |-> FALSE, fetch |-> "undefined"],
    [given |-> TRUE, enabled |-> TRUE, fetch |-> "function"],
    [given |-> TRUE, enabled |-> TRUE, fetch |-> "undefined"],
    [given |-> TRUE, enabled |-> TRUE, fetch |-> "string"] }

ConstructOptions == [state : StateOptions, server : ServerOptions]

\* deepMerge on the state section: without options.state the output holds
\* DEFAULT_OPTIONS.state itself; with it, a new object spread from the
\* defaults as they are now and overwritten by every key that is not undefined.
MergedState(option) ==
  IF ~option.given
    THEN [shared |-> TRUE, key |-> defaultsStateKey]
    ELSE [shared |-> FALSE,
          key |-> IF option.hasKey THEN option.key ELSE defaultsStateKey]

\* deepMerge on the server section; the default fetch is null.
MergedServer(option) ==
  IF ~option.given
    THEN [enabled |-> FALSE, fetch |-> "null"]
    ELSE [enabled |-> option.enabled,
          fetch |-> IF option.fetch = "undefined" THEN "null" ELSE option.fetch]

\* The key the constructor settles on: the merged one, else the root's
\* attribute, else the path and the root's id or a fresh uniqueId("table").
DerivedKey(merged, root, unique) ==
  IF merged.key # NullKey THEN merged.key
  ELSE IF root.stateKeyAttr # "" THEN StateKey("", root.stateKeyAttr, 0)
  ELSE IF root.id # "" THEN StateKey(PagePath, root.id, 0)
  ELSE StateKey(PagePath, "table-", unique)

\* Variant of the server check that only looks for a missing fetch.
FetchMissingOnlyIfNull(server) == server.enabled /\ server.fetch = "null"

\* The constructor's check of the fetch collaborator.
FetchMissing(server) == server.enabled /\ server.fetch # "function"

\* The calls of the log that produced an instance.
Instances(log) == { i \in DOMAIN log : log[i].outcome = "instance" }

\* The table that wrote last under a key, 0 when nothing is stored there.
WriterOf(key) ==
  IF \E entry \in savedBy : entry.key = key
    THEN (CHOOSE entry \in savedBy : entry.key = key).owner
    ELSE 0

\* What the constructor and #init leave in the instance.
InstanceBuilt(server, record, data) ==
  LET loaded == load(record, DefaultState)
  IN  /\ serverEnabled' = server.enabled
      /\ store' = record
      /\ state' = loaded
      /\ engineRows' = IF server.enabled THEN <<>> ELSE data
      /\ engineColumns' = TableColumns
      /\ engineCaseSensitive' = FALSE
      /\ UNCHANGED <<runDone, runParams, runResult>>
      /\ serverSnapshot' = EmptySnapshot
      /\ snapshotToken' = 0
      /\ requestToken' = IF server.enabled THEN 1 ELSE 0
      /\ inflight' = IF server.enabled
                       THEN { Request(1, BuildServerQuery(loaded)) } ELSE {}
      /\ answered' = FALSE
      /\ lastSettled' = NoneSettled
      /\ renderToken' = FrameHandle
      /\ frames' = 1
      /\ pendingReasons' = {"set-data"}
      /\ requestedReasons' = {"set-data"}
      /\ renderResult' = EmptyRenderResult
      /\ destroyed' = FALSE
      /\ searchTimer' = NoTimer
      /\ emitted' = <<LifecycleEvent("beforeInit")>>
                    \o (IF server.enabled
                          THEN <<BeforeQuery(BuildServerQuery(loaded), 1)>> ELSE <<>>)
                    \o <<LifecycleEvent("afterInit")>>
      /\ UNCHANGED calls

\* new BetterDataTable(root, options)
Construct(root, options, record, data) ==
  LET merged == MergedState(options.state)
      key == DerivedKey(merged, root, Len(constructLog) + 1)
      server == MergedServer(options.server)
      threw == FetchMissing(server)
  IN  /\ Len(constructLog) < MaxConstructions
      /\ \A i \in Instances(constructLog) : constructLog[i].root # root
      /\ defaultsStateKey' = IF merged.shared THEN key ELSE defaultsStateKey
      /\ constructLog' =
           Append(constructLog,
                  [root |-> root, options |-> options, key |-> key,
                   outcome |-> IF threw THEN "threw" ELSE "instance",
                   loadedFrom |-> IF threw THEN 0 ELSE WriterOf(key)])
      /\ IF ~threw /\ Instances(constructLog) = {}
           THEN InstanceBuilt(server, record, data)
           ELSE /\ emitted' = <<>>
                /\ UNCHANGED <<engineVars, serverEnabled, state, store, serverSnapshot,
                               snapshotToken, requestToken, inflight, answered,
                               lastSettled, renderToken, frames, pendingReasons,
                               requestedReasons, renderResult, destroyed,
                               searchTimer, calls>>
      /\ UNCHANGED <<savedBy, sortingMulti, sortHistory, windowDone, windowInput,
                     windowResult, unitVars>>

\* #persistState of the table the i-th call constructed: StateStore.save
\* writes under the key the store was given.
PersistTable(i) ==
  /\ i \in Instances(constructLog)
  /\ savedBy' = { entry \in savedBy : entry.key # constructLog[i].key }
                  \cup { [key |-> constructLog[i].key, owner |-> i] }
  /\ UNCHANGED <<engineVars, tableVars, defaultsStateKey, constructLog, sortingMulti,
                 sortHistory, windowDone, windowInput, windowResult, unitVars>>

ConstructInit ==
  /\ engineRows = <<>>
  /\ engineColumns = TableColumns
  /\ engineCaseSensitive = FALSE
  /\ runDone = FALSE
  /\ runParams = Params(<<>>, <<>>, 0, DefaultPageSize, TRUE)
  /\ runResult = NoResult
  /\ TableIdle

ConstructNext ==
  \/ \E root \in Roots, options \in ConstructOptions,
        record \in StoredRecords, data \in { ThreeRows } :
       Construct(root, options, record, data)
  \/ \E i \in 1..MaxConstructions : PersistTable(i)

SpecConstruct == ConstructInit /\ [][ConstructNext]_vars

\* The tables constructed without an explicit state.key.
KeyDerived == { i \in Instances(constructLog) :
                  ~(constructLog[i].options.state.hasKey
                    /\ constructLog[i].options.state.key # NullKey) }

\* The key a root gives: its attribute, or the path and its id; a root with
\* neither gets a key of random digits.
FromOwnRoot(key, root) ==
  IF root.stateKeyAttr # "" THEN key = StateKey("", root.stateKeyAttr, 0)
  ELSE IF root.id # "" THEN key = StateKey(PagePath, root.id, 0)
  ELSE key.path = PagePath /\ key.text = "table-" /\ key.unique > 0

\* C19: construction leaves the default options as they were, and tables
\* constructed on different roots without an explicit state.key have distinct
\* keys, each derived from its own root, so that none loads or overwrites what
\* another persisted.
C19_InstancesShareNothing ==
  /\ defaultsStateKey = NullKey
  /\ \A i \in KeyDerived :
       /\ FromOwnRoot(constructLog[i].key, constructLog[i].root)
       /\ constructLog[i].loadedFrom = 0
       /\ WriterOf(constructLog[i].key) \in {0, i}
       /\ \A j \in KeyDerived : i # j => constructLog[i].key # constructLog[j].key

\* The last call of the log, when this step made one.
Constructing == Len(constructLog') = Len(constructLog) + 1

LastConstruct == constructLog'[Len(constructLog')]

\* C20: a constructor call with server.enabled and a fetch that is not a
\* function throws: it produces no instance, emits no event, issues no query
\* and schedules no render.
C20_ConstructionFailsWithoutFetch ==
  [][(Constructing
        /\ LastConstruct.options.server.enabled
        /\ LastConstruct.options.server.fetch # "function")
       => /\ LastConstruct.outcome = "threw"
          /\ Instances(constructLog') = Instances(constructLog)
          /\ emitted' = <<>>
          /\ UNCHANGED <<inflight, requestToken, renderToken, frames, pendingReasons,
                         requestedReasons, state, store, serverEnabled>>]_vars

\* C20: the first constructor call threw, and there is no table: nothing
\* emitted, nothing in flight, no frame asked for.
C20_Witness ==
  /\ Len(constructLog) = 1
  /\ constructLog[1].options.server.enabled
  /\ constructLog[1].options.server.fetch = "string"
  /\ constructLog[1].outcome = "threw"
  /\ Instances(constructLog) = {}
  /\ emitted = <<>>
  /\ inflight = {}
  /\ renderToken = NoFrame

(***************************************************************************)
(* Properties of the table over the wider inputs, checked under SpecWide.  *)
(***************************************************************************)
\* The step accepts the given response: its fetch carries the current token.
Accepts(request, response) ==
  /\ request.token = requestToken
  /\ Internal(FetchResolve(request, response))

\* C27 as stated: a count missing from an accepted response is the number of
\* rows of that response.
C27_MissingCountsAreRowCount ==
  [][\A request \in inflight, response \in ServerResponses \cup OneCountResponses :
       Accepts(request, response) =>
         /\ ~response.filteredCount.present =>
              serverSnapshot'.filteredCount = Len(response.rows)
         /\ ~response.totalCount.present =>
              serverSnapshot'.totalCount = Len(response.rows)]_vars

\* C27: a missing filteredCount is the number of rows of the response, and a
\* missing totalCount is the filteredCount of the snapshot, given or defaulted.
C27_MissingTotalIsFilteredCount ==
  [][\A request \in inflight, response \in ServerResponses \cup OneCountResponses :
       Accepts(request, response) =>
         /\ serverSnapshot'.rows = response.rows
         /\ serverSnapshot'.filteredCount =
              (IF response.filteredCount.present
                 THEN response.filteredCount.value ELSE Len(response.rows))
         /\ serverSnapshot'.totalCount =
              (IF response.totalCount.present
                 THEN response.totalCount.value
                 ELSE serverSnapshot'.filteredCount)]_vars

\* C27: the snapshot of an accepted response of two rows that gave 60 as its
\* filteredCount and no totalCount.
C27_Witness ==
  /\ serverEnabled
  /\ answered
  /\ snapshotToken = requestToken
  /\ Len(serverSnapshot.rows) = 2
  /\ serverSnapshot.filteredCount = 60
  /\ serverSnapshot.totalCount = 60

\* C28: the interaction state keeps its shape: a page that is not negative, a
\* positive page size, a scroll offset that is not negative (search is a text
\* and the three are integers in every state of the model).
C28_StateKeepsShape ==
  /\ state.page >= 0
  /\ state.pageSize > 0
  /\ state.scrollTop >= 0

\* The page size the render result's pages are counted with.
RenderPageSize ==
  IF serverEnabled THEN Max(1, state.pageSize)
  ELSE IF state.pageSize > 0 THEN state.pageSize ELSE DefaultPageSize

\* C30: after a render pass the page of the state is the page of the render
\* result, lies between 0 and max(0, totalPages - 1) with totalPages counted
\* from the filtered count rendered and the page size, and is the page persisted.
C30_PageClampedAfterRender ==
  RenderPassRan =>
    /\ state.page = renderResult.page
    /\ 0 =< state.page
    /\ state.page =< Max(0, renderResult.totalPages - 1)
    /\ serverEnabled => renderResult.filteredCount = serverSnapshot.filteredCount
    /\ IF renderResult.filteredCount = 0 THEN renderResult.totalPages = 0
       ELSE IsCeilDiv(renderResult.totalPages, renderResult.filteredCount,
                      RenderPageSize)
    /\ store = Saved(state)

\* C30: a render pass in client mode found page 1 in the state, counted one
\* page, and set and stored page 0.
C30_Witness ==
  /\ RenderPassRan
  /\ ~serverEnabled
  /\ \E before \in EventsOf(emitted, "beforeRender") : before.state.page = 1
  /\ renderResult.totalPages = 1
  /\ state.page = 0
  /\ store.rec.page = 0

(***************************************************************************)
(* StateStore on its own: load, save and clear over a medium that may be   *)
(* absent, may throw on any call, and may hold any text under the key.     *)
(***************************************************************************)
MaxStoreCalls == 3

\* JSON.stringify(state): the text of an object with the members of state.
Stringify(s) == Item("json", s)

\* What a call returned, or that it threw, and the medium it left.
Outcome(threw, value, medium) == [threw |-> threw, value |-> value, medium |-> medium]

\* The object `{...fallback, ...parsed}`.
Spread(fallback, parsed) ==
  [f \in DOMAIN fallback \cup DOMAIN parsed |->
     IF f \in DOMAIN parsed THEN parsed[f] ELSE fallback[f]]

\* load without its catch clause.
StoreLoadUncaught(enabled, medium, fallback, fault) ==
  IF ~enabled \/ ~medium.present THEN Outcome(FALSE, fallback, medium)
  ELSE IF fault THEN Outcome(TRUE, <<>>, medium)
  ELSE IF medium.item.kind \in {"none", "empty"} THEN Outcome(FALSE, fallback, medium)
  ELSE IF medium.item.kind # "json" THEN Outcome(TRUE, <<>>, medium)
  ELSE Outcome(FALSE, Spread(fallback, medium.item.members), medium)

\* StateStore.load(fallbackState); fault: getItem throws.
StoreLoad(enabled, medium, fallback, fault) ==
  IF ~enabled \/ ~medium.present THEN Outcome(FALSE, fallback, medium)
  ELSE LET body == IF fault THEN Outcome(TRUE, <<>>, medium)
                   ELSE IF medium.item.kind \in {"none", "empty"}
                          THEN Outcome(FALSE, fallback, medium)
                   ELSE IF medium.item.kind # "json" THEN Outcome(TRUE, <<>>, medium)
                   ELSE Outcome(FALSE, Spread(fallback, medium.item.members), medium)
       IN  IF body.threw THEN Outcome(FALSE, fallback, medium) ELSE body

\* save that adds the members of state to the record under the key.
StoreSaveMerging(enabled, medium, s, fault) ==
  IF ~enabled \/ ~medium.present \/ fault THEN Outcome(FALSE, <<>>, medium)
  ELSE Outcome(FALSE, <<>>,
               [medium EXCEPT !.item =
                  IF medium.item.kind = "json"
                    THEN Stringify(Spread(medium.item.members, s))
                    ELSE Stringify(s)])

\* StateStore.save(state); fault: setItem throws.
StoreSave(enabled, medium, s, fault) ==
  IF ~enabled \/ ~medium.present THEN Outcome(FALSE, <<>>, medium)
  ELSE LET body == IF fault THEN Outcome(TRUE, <<>>, medium)
                   ELSE Outcome(FALSE, <<>>, [medium EXCEPT !.item = Stringify(s)])
       IN  IF body.threw THEN Outcome(FALSE, <<>>, medium) ELSE body

\* StateStore.clear(); fault: removeItem throws.
StoreClear(enabled, medium, fault) ==
  IF ~enabled \/ ~medium.present THEN Outcome(FALSE, <<>>, medium)
  ELSE LET body == IF fault THEN Outcome(TRUE, <<>>, medium)
                   ELSE Outcome(FALSE, <<>>, [medium EXCEPT !.item = Item("none", <<>>)])
       IN  IF body.threw THEN Outcome(FALSE, <<>>, medium) ELSE body

\* The members of st named in fields.
Only(st, fields) == [f \in fields |-> st[f]]

\* States handed to save: all five fields, or the fields an earlier version
\* knew.
SavedStates ==
  { Only([DefaultState EXCEPT !.page = 1, !.pageSize = 2], DOMAIN DefaultState),
    Only([DefaultState EXCEPT !.page = 2], {"page", "pageSize"}),
    Only([DefaultState EXCEPT !.search = <<"a">>], {"search"}) }

\* One call of the store; the log keeps the call, the text it found under
\* the key and how it ended.
StoreCall(op, arg, fault) ==
  LET out == CASE op = "load" -> StoreLoad(storeEnabled, storage, arg, fault)
               [] op = "save" -> StoreSave(storeEnabled, storage, arg, fault)
               [] OTHER -> StoreClear(storeEnabled, storage, fault)
  IN  /\ Len(storeLog) < MaxStoreCalls
      /\ storage' = out.medium
      /\ storeLog' = Append(storeLog,
                            [op |-> op, arg |-> arg, fault |-> fault,
                             threw |-> out.threw, value |-> out.value])
      /\ UNCHANGED <<engineVars, tableVars, sortingMulti, sortHistory, windowDone,
                     windowInput, windowResult, constructVars, storeEnabled,
                     cellVars, adapterVars, restVars>>

StoreInit ==
  /\ engineRows = <<>>
  /\ engineColumns = TableColumns
  /\ engineCaseSensitive = FALSE
  /\ runDone = FALSE
  /\ runParams = Params(<<>>, <<>>, 0, DefaultPageSize, TRUE)
  /\ runResult = NoResult
  /\ TableDetached
  /\ sortingMulti = TRUE
  /\ sortHistory = <<>>
  /\ WindowIdle
  /\ ConstructIdle
  /\ CellsIdle
  /\ AdapterIdle
  /\ RestIdle
  /\ storeEnabled \in BOOLEAN
  /\ storage \in { [present |-> FALSE, item |-> Item("none", <<>>)] }
                   \cup { [present |-> TRUE, item |-> Item(kind, <<>>)] :
                            kind \in {"none", "empty", "invalid"} }
                   \cup { [present |-> TRUE, item |-> Stringify(s)] : s \in SavedStates }
  /\ storeLog = <<>>

StoreNext ==
  \/ \E fault \in BOOLEAN : StoreCall("load", DefaultState, fault)
  \/ \E s \in SavedStates, fault \in BOOLEAN : StoreCall("save", s, fault)
  \/ \E fault \in BOOLEAN : StoreCall("clear", <<>>, fault)

SpecStore == StoreInit /\ [][StoreNext]_vars

\* The call a step of the store makes.
StoreStep == storeLog'[Len(storeLog')]

\* The medium cannot serve the call: persistence is off, there is no medium,
\* or the medium throws.
Unserved == ~storeEnabled \/ ~storage.present \/ StoreStep.fault

\* C23: load, save and clear never throw; when persistence is disabled, the
\* medium is absent or the call to the medium throws, load returns the
\* fallback and save and clear leave the medium as it was; load also returns
\* the fallback when the text under the key is not valid JSON.
C23_StoreNeverThrows ==
  [][ Len(storeLog') = Len(storeLog) + 1 =>
        /\ ~StoreStep.threw
        /\ (StoreStep.op = "load" /\ (Unserved \/ storage.item.kind = "invalid"))
             => StoreStep.value = StoreStep.arg
        /\ StoreStep.op = "load" => storage' = storage
        /\ (StoreStep.op \in {"save", "clear"} /\ Unserved) => storage' = storage ]_vars

\* A load met invalid JSON, a save met a throwing medium, and the text under
\* the key is still the invalid one.
C23_Witness ==
  /\ Len(storeLog) = 2
  /\ storeEnabled /\ storage.present /\ storage.item.kind = "invalid"
  /\ storeLog[1].op = "load" /\ ~storeLog[1].fault /\ storeLog[1].value = DefaultState
  /\ storeLog[2].op = "save" /\ storeLog[2].fault

\* The calls before the i-th were all served by the medium.
ServedBefore(i) ==
  storeEnabled /\ storage.present /\ \A j \in 1..i : ~storeLog[j].fault

CellError(kind, column) == [type |-> "error", kind |-> kind, column |-> column]

\* A cell of the body: text content, injected markup, or an appended node.
Cell(mode, content) == [mode |-> mode, content |-> content]

\* The markup, the text and the string the callbacks return.
Markup == <<"<", "b", ">">>

TextPayload == <<"t">>

StringPayload == <<"s">>

\* options.security.sanitizer, when configured: one that removes the brackets.
Sanitize(html) == SelectSeq(html, LAMBDA ch : ch \notin {"<", ">"})

\* What column.render returns, or that it throws, for the page row rowIndex.
Rendered(callback, rowIndex) ==
  IF callback.scope = "first" /\ rowIndex # 0 THEN "string" ELSE callback.kind

\* #renderCellContent with a catch clause that throws the error again.
RenderCellContentUncaught(column, callback, value, rowIndex, sec) ==
  LET rendered == Rendered(callback, rowIndex)
      Done(cell, events) == [threw |-> FALSE, cell |-> cell, events |-> events]
  IN  IF callback.kind = "none" THEN Done(Cell("text", toText(value)), <<>>)
      ELSE IF rendered = "throws"
        THEN [threw |-> TRUE, cell |-> Cell("text", <<>>),
              events |-> <<CellError("render", column.id)>>]
      ELSE IF rendered = "node" THEN Done(Cell("node", <<>>), <<>>)
      ELSE IF rendered \in {"text", "textAndHtml"}
        THEN Done(Cell("text", TextPayload), <<>>)
      ELSE IF rendered = "html"
        THEN IF ~sec.allowUnsafeHtml
               THEN Done(Cell("text", Markup), <<CellError("security", column.id)>>)
               ELSE Done(Cell("html", IF sec.sanitizer THEN Sanitize(Markup)
                                                      ELSE Markup), <<>>)
      ELSE Done(Cell("text", StringPayload), <<>>)

\* #renderCellContent that injects {html} whatever options.security says.
RenderCellContentUngated(column, callback, value, rowIndex, sec) ==
  LET rendered == Rendered(callback, rowIndex)
      Done(cell, events) == [threw |-> FALSE, cell |-> cell, events |-> events]
  IN  IF callback.kind = "none" THEN Done(Cell("text", toText(value)), <<>>)
      ELSE IF rendered = "throws"
        THEN Done(Cell("text", toText(value)), <<CellError("render", column.id)>>)
      ELSE IF rendered = "node" THEN Done(Cell("node", <<>>), <<>>)
      ELSE IF rendered \in {"text", "textAndHtml"}
        THEN Done(Cell("text", TextPayload), <<>>)
      ELSE IF rendered = "html"
        THEN IF FALSE
               THEN Done(Cell("text", Markup), <<CellError("security", column.id)>>)
               ELSE Done(Cell("html", IF sec.sanitizer THEN Sanitize(Markup)
                                                      ELSE Markup), <<>>)
      ELSE Done(Cell("text", StringPayload), <<>>)

\* #renderCellContent: the cell, the events emitted, and whether it threw.
RenderCellContent(column, callback, value, rowIndex, sec) ==
  LET rendered == Rendered(callback, rowIndex)
      Done(cell, events) == [threw |-> FALSE, cell |-> cell, events |-> events]
  IN  IF callback.kind = "none" THEN Done(Cell("text", toText(value)), <<>>)
      ELSE IF rendered = "throws"
        THEN Done(Cell("text", toText(value)), <<CellError("render", column.id)>>)
      ELSE IF rendered = "node" THEN Done(Cell("node", <<>>), <<>>)
      ELSE IF rendered \in {"text", "textAndHtml"}
        THEN Done(Cell("text", TextPayload), <<>>)
      ELSE IF rendered = "html"
        THEN IF ~sec.allowUnsafeHtml
               THEN Done(Cell("text", Markup), <<CellError("security", column.id)>>)
               ELSE Done(Cell("html", IF sec.sanitizer THEN Sanitize(Markup)
                                                      ELSE Markup), <<>>)
      ELSE Done(Cell("text", StringPayload), <<>>)

RECURSIVE EventsUpTo(_, _)
\* The events of the first k cells, in the order the cells are rendered.
EventsUpTo(outcomes, k) ==
  IF k = 0 THEN <<>> ELSE EventsUpTo(outcomes, k - 1) \o outcomes[k].events

\* #renderBody: the cells row by row; an exception leaving a cell ends the
\* pass before the body is replaced.
RenderBody(result, columns, callbacks, sec) ==
  LET n == Len(result.visibleRows)
      m == Len(columns)
      outcomes ==
        [k \in 1..(n * m) |->
           LET r == ((k - 1) \div m) + 1
               c == ((k - 1) % m) + 1
           IN  RenderCellContent(columns[c], callbacks[columns[c].id],
                                 getValue(columns[c], result.visibleRows[r]),
                                 result.startRowIndex + r - 1, sec)]
      thrown == { k \in 1..(n * m) : outcomes[k].threw }
  IN  [completed |-> thrown = {},
       cells |-> [r \in 1..n |-> [c \in 1..m |-> outcomes[(r - 1) * m + c].cell]],
       events |-> EventsUpTo(outcomes, IF thrown = {} THEN n * m
                                       ELSE CHOOSE k \in thrown :
                                              \A other \in thrown : k =< other)]

\* #render as the frame callback of a table whose columns have callbacks.
RenderCells ==
  /\ frames > 0
  /\ renderToken' = NoFrame
  /\ frames' = frames - 1
  /\ pendingReasons' = {}
  /\ requestedReasons' = {}
  /\ \E base \in ComputeRenderResult(serverEnabled, serverSnapshot, state,
                                     engineRows, engineColumns, engineCaseSensitive) :
     \E window \in { ComputeVirtualWindow(base.pageRows, state.scrollTop) } :
       LET next == [state EXCEPT !.page = base.page]
           result == RenderResultOf(base, window)
           drawn == RenderBody(result, engineColumns, columnRender, security)
       IN  /\ state' = next
           /\ store' = Saved(next)
           /\ renderResult' = result
           /\ bodyCells' = IF drawn.completed THEN drawn.cells ELSE bodyCells
           /\ emitted' = <<BeforeRender(pendingReasons, state)>> \o drawn.events
                          \o (IF drawn.completed
                                THEN <<AfterRender(pendingReasons, result)>>
                                ELSE <<>>)
  /\ NoQueryIssued
  /\ UNCHANGED <<engineVars, serverEnabled, serverSnapshot, snapshotToken,
                 destroyed, searchTimer, calls, sortingMulti, sortHistory,
                 windowDone, windowInput, windowResult, constructVars, storeVars,
                 security, columnRender, adapterVars, restVars>>

\* The callbacks a column is given.
Callbacks ==
  { Callback("none", "all") }
    \cup { Callback(kind, "all") :
             kind \in {"string", "text", "textAndHtml", "node", "html", "throws"} }
    \cup { Callback(kind, "first") : kind \in {"html", "throws"} }

CellsInit ==
  /\ InitTable({FALSE}, {NoRecord}, {ThreeRows}, {TRUE})
  /\ StoreIdle
  /\ AdapterIdle
  /\ RestIdle
  /\ security \in [allowUnsafeHtml : BOOLEAN, sanitizer : BOOLEAN]
  /\ columnRender \in [{"name", "score"} -> Callbacks]
  /\ bodyCells = <<>>

CellsNext ==
  \/ RenderCells
  \/ \E page \in PageInputs : External(SetPage(page))
  \/ \E pageSize \in PageSizeInputs : External(SetPageSize(pageSize))

SpecCells == CellsInit /\ [][CellsNext]_vars

\* What the callback of column c returned for the r-th rendered row.
ReturnedAt(r, c) ==
  Rendered(columnRender[engineColumns[c].id], renderResult.startRowIndex + r - 1)

\* The error events of the last pass of one kind that name the column.
ErrorsNaming(kind, id) ==
  { j \in 1..Len(emitted) :
      /\ emitted[j].type = "error"
      /\ emitted[j].kind = kind
      /\ emitted[j].column = id }

\* The last pass rendered every cell of every visible row and ended with
\* afterRender.
PassCompleted ==
  /\ Len(bodyCells) = Len(renderResult.visibleRows)
  /\ \A r \in 1..Len(bodyCells) : Len(bodyCells[r]) = Len(engineColumns)
  /\ emitted[Len(emitted)].type = "afterRender"

\* C21: after a render pass, a cell holds injected markup only if
\* security.allowUnsafeHtml is true and its callback returned {html}; when
\* allowUnsafeHtml is false every cell whose callback returned {html} holds
\* the markup as text, the security errors naming a column are exactly one
\* for each such cell of the column, and the pass rendered all cells and
\* emitted afterRender.
C21_MarkupOnlyWhenAllowed ==
  RenderPassRan =>
    /\ PassCompleted
    /\ \A r \in 1..Len(bodyCells), c \in 1..Len(engineColumns) :
         /\ bodyCells[r][c].mode = "html" =>
              security.allowUnsafeHtml /\ ReturnedAt(r, c) = "html"
         /\ (ReturnedAt(r, c) = "html" /\ ~security.allowUnsafeHtml) =>
              bodyCells[r][c] = Cell("text", Markup)
    /\ \A c \in 1..Len(engineColumns) :
         Cardinality(ErrorsNaming("security", engineColumns[c].id)) =
           IF security.allowUnsafeHtml THEN 0
           ELSE Cardinality({ r \in 1..Len(bodyCells) : ReturnedAt(r, c) = "html" })

\* With raw markup blocked, the callback of "name" returned {html} for the
\* first of three rows: that cell shows the markup as text, one security
\* error names the column, and the cells after it are rendered.
C21_Witness ==
  /\ RenderPassRan
  /\ ~security.allowUnsafeHtml
  /\ columnRender["name"] = Callback("html", "first")
  /\ columnRender["score"] = Callback("node", "all")
  /\ Len(bodyCells) = 3
  /\ bodyCells[1][1] = Cell("text", Markup)
  /\ bodyCells[1][2].mode = "node"
  /\ bodyCells[3][1] = Cell("text", StringPayload)
  /\ Cardinality(ErrorsNaming("security", "name")) = 1
  /\ emitted[Len(emitted)].type = "afterRender"

\* C22: after a render pass, every cell whose render callback threw shows
\* the text of the raw value, the render errors naming a column are exactly
\* one for each such cell of the column, the pass rendered all cells and
\* emitted afterRender, and the interaction state is the state before the
\* pass with the page of the render result.
C22_ThrowingCallbackIsLocal ==
  RenderPassRan =>
    /\ PassCompleted
    /\ \A r \in 1..Len(bodyCells), c \in 1..Len(engineColumns) :
         (columnRender[engineColumns[c].id].kind # "none" /\ ReturnedAt(r, c) = "throws")
           => bodyCells[r][c] =
                Cell("text", toText(getValue(engineColumns[c],
                                             renderResult.visibleRows[r])))
    /\ \A c \in 1..Len(engineColumns) :
         Cardinality(ErrorsNaming("render", engineColumns[c].id)) =
           Cardinality({ r \in 1..Len(bodyCells) : ReturnedAt(r, c) = "throws" })
    /\ state = [emitted[1].state EXCEPT !.page = renderResult.page]
    /\ store = Saved(state)

\* The callback of "name" threw for each of three rows and "score" returned
\* {text}: the name cells show the names, three render errors name the
\* column, and the last score cell is rendered.
C22_Witness ==
  /\ RenderPassRan
  /\ columnRender["name"] = Callback("throws", "all")
  /\ columnRender["score"] = Callback("text", "all")
  /\ Len(bodyCells) = 3
  /\ bodyCells[1][1] = Cell("text", <<"a">>)
  /\ bodyCells[3][1] = Cell("text", <<"A", "b">>)
  /\ bodyCells[3][2] = Cell("text", TextPayload)
  /\ Cardinality(ErrorsNaming("render", "name")) = 3
  /\ Cardinality(ErrorsNaming("render", "score")) = 0
  /\ emitted[Len(emitted)].type = "afterRender"

(***************************************************************************)
(* The jQuery adapter: $.fn.betterDataTable called on a set of matched     *)
(* elements with options or with a method name.                            *)
(***************************************************************************)
MaxTablesPerElement == 2

\* The jQuery objects of the calls: the elements matched, in document order.
MatchedSets ==
  { SelectSeq(Elements, LAMBDA e : e \in chosen) : chosen \in SUBSET {"e1", "e2", "e3"} }

\* First arguments that are strings: "instance", two methods of the table,
\* a property of the table that is not a function, and an unknown name.
MethodNames == {"instance", "setSearch", "destroy", "options", "unknownMethod"}

\* typeof instance[methodName] === "function"
IsFunction(name) == name \in {"setSearch", "destroy"}

\* One invocation: the method, and the table of the element it ran on.
Invocation(name, element, table) == [name |-> name, element |-> element, table |-> table]

\* The callback of this.each for a method name is available at the element.
Available(name, element) == adapterInstances[element] # 0 /\ IsFunction(name)

\* $(...).betterDataTable(options): each matched element gets a new table;
\* the table it had is destroyed first.
AdapterInit(matched) ==
  LET had == SelectSeq(matched, LAMBDA e : adapterInstances[e] # 0)
  IN  /\ \A i \in 1..Len(matched) : adapterInstances[matched[i]] < MaxTablesPerElement
      /\ adapterInstances' =
           [e \in DOMAIN adapterInstances |->
              IF \E i \in 1..Len(matched) : matched[i] = e
                THEN adapterInstances[e] + 1 ELSE adapterInstances[e]]
      /\ adapterCall' =
           AdapterCall("", matched,
                       [i \in 1..Len(had) |->
                          Invocation("destroy", had[i], adapterInstances[had[i]])],
                       FALSE, Returned("jquery", "", 0))

\* $(...).betterDataTable(methodName, ...args)
AdapterMethod(matched, name) ==
  /\ adapterCall' =
       IF name = "instance"
         THEN AdapterCall(name, matched, <<>>, FALSE,
                IF Len(matched) > 0 /\ adapterInstances[matched[1]] # 0
                  THEN Returned("table", matched[1], adapterInstances[matched[1]])
                  ELSE Returned("null", "", 0))
         ELSE LET failing == { i \in 1..Len(matched) : ~Available(name, matched[i]) }
                  reached == IF failing = {} THEN Len(matched)
                             ELSE (CHOOSE i \in failing : \A j \in failing : i =< j) - 1
              IN  AdapterCall(name, matched,
                    [i \in 1..reached |->
                       Invocation(name, matched[i], adapterInstances[matched[i]])],
                    failing # {},
                    IF failing # {} THEN Returned("none", "", 0)
                    ELSE Returned("jquery", "", 0))
  /\ UNCHANGED adapterInstances

AdapterStep(A) ==
  /\ A
  /\ UNCHANGED <<engineVars, tableVars, sortingMulti, sortHistory, windowDone,
                 windowInput, windowResult, constructVars, storeVars, cellVars,
                 restVars>>

AdapterInitial ==
  /\ engineRows = <<>>
  /\ engineColumns = TableColumns
  /\ engineCaseSensitive = FALSE
  /\ runDone = FALSE
  /\ runParams = Params(<<>>, <<>>, 0, DefaultPageSize, TRUE)
  /\ runResult = NoResult
  /\ TableIdle

AdapterNext ==
  \/ \E matched \in MatchedSets : AdapterStep(AdapterInit(matched))
  \/ \E matched \in MatchedSets, name \in MethodNames :
       AdapterStep(AdapterMethod(matched, name))

SpecAdapter == AdapterInitial /\ [][AdapterNext]_vars

\* The last call named a method other than "instance".
MethodCalled == adapterCall.name \notin {"", "instance"}

\* The matched elements that have no table.
Bare == { i \in 1..Len(adapterCall.matched) :
            adapterInstances[adapterCall.matched[i]] = 0 }

\* C29: a call with a method name on an element that has no table, or with
\* a name that is not a function of the table, throws and invokes nothing;
\* "instance" returns the table of the element, or null; a call with a valid
\* method name on elements that all have tables invokes the method once on
\* the table of each matched element and returns the jQuery object.
C29_AdapterDispatch ==
  /\ (MethodCalled /\ (Bare # {} \/ (Len(adapterCall.matched) > 0
                                       /\ ~IsFunction(adapterCall.name))))
       => adapterCall.threw /\ adapterCall.invoked = <<>>
  /\ adapterCall.name = "instance" =>
       /\ ~adapterCall.threw
       /\ adapterCall.returned =
            IF Len(adapterCall.matched) > 0
                 /\ adapterInstances[adapterCall.matched[1]] # 0
              THEN Returned("table", adapterCall.matched[1],
                            adapterInstances[adapterCall.matched[1]])
              ELSE Returned("null", "", 0)
  /\ (MethodCalled /\ Bare = {} /\ IsFunction(adapterCall.name)) =>
       /\ ~adapterCall.threw
       /\ adapterCall.returned = Returned("jquery", "", 0)
       /\ adapterCall.invoked =
            [i \in 1..Len(adapterCall.matched) |->
               Invocation(adapterCall.name, adapterCall.matched[i],
                          adapterInstances[adapterCall.matched[i]])]

(***************************************************************************)
(* The comparator of QueryEngine.run, under SpecEngine.                    *)
(***************************************************************************)
\* C36: the comparator is a consistent ordering: under every honored rule
\* of the last call, comparing two rows of the engine one way and the other
\* way gives opposite signs (or 0 both ways), and the call can return one
\* result only, whatever the order in which the sort compares the rows.
C36_ComparatorConsistent ==
  runDone =>
    /\ \A k \in 1..Len(runParams.sort) :
         Honored(runParams.sort[k]) =>
           \A i, j \in 1..Len(engineRows) :
             Sign(KeyCompare(k, engineRows[i], engineRows[j]))
               = -Sign(KeyCompare(k, engineRows[j], engineRows[i]))
    /\ run(engineRows, engineColumns, engineCaseSensitive, runParams) = { runResult }

(***************************************************************************)
(* An engine that is given rows and run several times.  The sort of one    *)
(* build is a function: a run with the parameters of an earlier run on the *)
(* same rows orders them as that run did.                                  *)
(***************************************************************************)
MaxRuns == 2

\* A run that leaves the page it returns in this.rows.
RowsKeptAsReturned(rows, result) == result.rows

\* this.rows after run: run reads the array and assigns nothing to it.
RowsAfterRun(rows, result) == rows

\* Four rows, two of them without a score (null, undefined).
FourRows ==
  <<DataRow(1, <<"a">>, Num(10)), DataRow(2, <<"A", "b">>, Null),
    DataRow(3, <<"b">>, Num(9)), [id |-> Num(4), name |-> Str(<<"a", "b">>)]>>

\* setRows(rows): the array, or an empty one when rows is not an array.
EngineSetRows(isArray, rows) ==
  /\ engineRows' = IF isArray THEN rows ELSE <<>>
  /\ runLog' = <<>>
  /\ UNCHANGED <<engineColumns, engineCaseSensitive, runDone, runParams, runResult,
                 tableVars, sortingMulti, sortHistory, windowDone, windowInput,
                 windowResult, constructVars, storeVars, cellVars, adapterVars,
                 timerVars>>

\* run(params), logged.
EngineRunLogged(params) ==
  /\ Len(runLog) < MaxRuns
  /\ \E result \in run(engineRows, engineColumns, engineCaseSensitive, params) :
       /\ \A i \in 1..Len(runLog) :
            runLog[i].params = params => runLog[i].result = result
       /\ runLog' = Append(runLog, [params |-> params, result |-> result])
       /\ engineRows' = RowsAfterRun(engineRows, result)
  /\ UNCHANGED <<engineColumns, engineCaseSensitive, runDone, runParams, runResult,
                 tableVars, sortingMulti, sortHistory, windowDone, windowInput,
                 windowResult, constructVars, storeVars, cellVars, adapterVars,
                 timerVars>>

RunsInit ==
  /\ engineRows = <<>>
  /\ engineColumns = TableColumns
  /\ engineCaseSensitive = FALSE
  /\ runDone = FALSE
  /\ runParams = Params(<<>>, <<>>, 0, DefaultPageSize, TRUE)
  /\ runResult = NoResult
  /\ TableIdle

RunsNext ==
  \/ \E rows \in { ThreeRows, FourRows } : EngineSetRows(TRUE, rows)
  \/ EngineSetRows(FALSE, <<>>)
  \/ \E search \in { <<>>, <<"b">> }, sort \in { <<>>, <<SortRule("score", "desc")>> },
        page \in 0..2, pageSize \in 1..2, pagination \in BOOLEAN :
       /\ (~pagination => page = 0 /\ pageSize = 1)
       /\ EngineRunLogged(Params(search, sort, page, pageSize, pagination))

SpecRuns == RunsInit /\ [][RunsNext]_vars

\* The run a step of the engine makes.
LastRun == runLog'[Len(runLog')]

RECURSIVE PagesFrom(_, _, _, _)
\* The rows of pages p, p + 1, ... of one ordering, one after the other, as
\* run returns them for the parameters with each page number in turn.
PagesFrom(ordered, total, params, p) ==
  LET result == Paginate(ordered, total, [params EXCEPT !.page = p])
  IN  IF p >= result.totalPages THEN <<>>
      ELSE result.rows \o PagesFrom(ordered, total, params, p + 1)

\* C34: for the rows, search, sort and page size of a paginated run, the
\* pages 0 .. totalPages - 1 put one after the other are the filtered and
\* sorted rows, each once and in order; every page but the last has
\* pageSize rows and the last page has at least one.
C34_PagesPartition ==
  \A i \in 1..Len(runLog) :
    runLog[i].params.pagination =>
      \A ordering \in SortOutcomes(engineColumns, runLog[i].params.sort,
                                   Decorate(engineRows, engineColumns,
                                            engineCaseSensitive,
                                            runLog[i].params.search)) :
        LET ordered == Rows(ordering)
            params == runLog[i].params
            size == NumberOf(params.pageSize).n
            PageOf(p) == Paginate(ordered, Len(engineRows), [params EXCEPT !.page = p])
            totalPages == runLog[i].result.totalPages
        IN  /\ PagesFrom(ordered, Len(engineRows), params, 0) = ordered
            /\ \A p \in 0..(totalPages - 1) :
                 /\ PageOf(p).page = p
                 /\ PageOf(p).totalPages = totalPages
                 /\ p < totalPages - 1 => Len(PageOf(p).rows) = size
                 /\ p = totalPages - 1 => Len(PageOf(p).rows) \in 1..size

\* A run of page 1 with two rows per page on three sorted rows: two pages,
\* the last one holding the single remaining row.
C34_Witness ==
  /\ Len(runLog) >= 1
  /\ engineRows = ThreeRows
  /\ runLog[1].params.pagination
  /\ runLog[1].params.pageSize = Num(2)
  /\ runLog[1].params.page = 1
  /\ Len(runLog[1].params.sort) = 1
  /\ runLog[1].result.totalPages = 2
  /\ runLog[1].result.page = 1
  /\ Len(runLog[1].result.rows) = 1
  /\ runLog[1].result.rows[1] = ThreeRows[3]

(***************************************************************************)
(* debounce(fn, waitMs), under SpecDebounce.  Time is counted in units of  *)
(* the timer.  setTimeout(callback, waitMs) runs the callback when waitMs  *)
(* has elapsed: time does not pass a timer that is due, and the callback   *)
(* of a due timer runs before a later call of the debounced function.  The *)
(* arguments are the text of the search input at the event, and fn is the  *)
(* listener that calls setSearch.                                          *)
(***************************************************************************)
WaitMs == 3

MaxClock == 8

MaxDebounceCalls == 3

DebounceArgs == { "a", "b" }

DebounceEntry(kind, at, args) == [kind |-> kind, at |-> at, args |-> args]

\* A debounced function that leaves a pending timer as it is.
DebouncedKeepsTimer(timer, now, args) ==
  IF timer.armed THEN timer ELSE TimerSet(now + WaitMs, args)

\* The timer after a call of the debounced function: a pending timer is
\* cleared and a new one set for waitMs later, holding the call's arguments.
Debounced(timer, now, args) == TimerSet(now + WaitMs, args)

\* The number of calls of the debounced function so far.
DebounceCalls == Cardinality({ i \in 1..Len(debounceLog) : debounceLog[i].kind = "call" })

\* A call of the function debounce returns.
DebounceCall(args) ==
  /\ DebounceCalls < MaxDebounceCalls
  /\ clock + WaitMs =< MaxClock
  /\ ~(debounceTimer.armed /\ clock >= debounceTimer.due)
  /\ debounceTimer' = Debounced(debounceTimer, clock, args)
  /\ debounceLog' = Append(debounceLog, DebounceEntry("call", clock, args))
  /\ UNCHANGED <<engineVars, tableVars, sortingMulti, sortHistory, windowDone,
                 windowInput, windowResult, constructVars, storeVars, cellVars,
                 adapterVars, runLog, clock>>

\* The callback given to setTimeout: timer = null; fn(...args).
DebounceExpire ==
  /\ debounceTimer.armed
  /\ clock >= debounceTimer.due
  /\ debounceTimer' = TimerOff
  /\ debounceLog' = Append(debounceLog, DebounceEntry("fn", clock, debounceTimer.args))
  /\ UNCHANGED <<engineVars, tableVars, sortingMulti, sortHistory, windowDone,
                 windowInput, windowResult, constructVars, storeVars, cellVars,
                 adapterVars, runLog, clock>>

\* One unit of time passes.
DebounceTick ==
  /\ clock < MaxClock
  /\ ~(debounceTimer.armed /\ clock >= debounceTimer.due)
  /\ clock' = clock + 1
  /\ UNCHANGED <<engineVars, tableVars, sortingMulti, sortHistory, windowDone,
                 windowInput, windowResult, constructVars, storeVars, cellVars,
                 adapterVars, runLog, debounceTimer, debounceLog>>

DebounceInit == RunsInit

DebounceNext ==
  \/ \E args \in DebounceArgs : DebounceCall(args)
  \/ DebounceExpire
  \/ DebounceTick

SpecDebounce ==
  /\ DebounceInit
  /\ [][DebounceNext]_vars
  /\ WF_vars(DebounceExpire)
  /\ WF_vars(DebounceTick)

\* The call at position c of the log is the last one of its burst: no call
\* follows it less than waitMs later.
EndsBurst(c) ==
  /\ debounceLog[c].kind = "call"
  /\ \A d \in (c + 1)..Len(debounceLog) :
       debounceLog[d].kind = "call" => debounceLog[d].at >= debounceLog[c].at + WaitMs

\* Every invocation of fn follows the last call of a burst, waitMs after it
\* and with its arguments, and every burst whose waitMs has elapsed was
\* followed by one.
OncePerBurst ==
  /\ \A k \in 1..Len(debounceLog) :
       debounceLog[k].kind = "fn" =>
         /\ k > 1
         /\ EndsBurst(k - 1)
         /\ debounceLog[k].at = debounceLog[k - 1].at + WaitMs
         /\ debounceLog[k].args = debounceLog[k - 1].args
  /\ \A c \in 1..Len(debounceLog) :
       (EndsBurst(c) /\ (clock > debounceLog[c].at + WaitMs \/ c < Len(debounceLog))) =>
         /\ c < Len(debounceLog)
         /\ debounceLog[c + 1].kind = "fn"
  /\ \A c \in 1..Len(debounceLog) :
       (debounceLog[c].kind = "call" /\ ~EndsBurst(c)) =>
         (c < Len(debounceLog) /\ debounceLog[c + 1].kind = "call")

CurrentInFlight == { request \in inflight : request.token = requestToken }

\* C32: in server mode a render pass that runs while the query of the
\* current token is in flight leaves state.page as it is, and when the
\* response to that query is accepted the page the query carried is the
\* current page and the page of the persisted record.
C32_PageKeptWhileInFlight ==
  [][ serverEnabled =>
        /\ (EventsOf(emitted', "beforeRender") # {} /\ CurrentInFlight # {}) =>
             state'.page = state.page
        /\ \A after \in EventsOf(emitted', "afterQuery") :
             /\ state'.page = after.query.page
             /\ store'.present => store'.rec.page = after.query.page
    ]_vars

(***************************************************************************)
(* A client-mode table over more rows than its viewport shows, under       *)
(* SpecScroll: the window moves with the scroll offset, and the mutators,  *)
(* setData, the scroll listener and the keyboard handler reach it.         *)
(***************************************************************************)
MaxScrollRows == 14

MaxScrollCalls == 2

\* Rows named "a" and "b" in turn, with falling scores.
ManyRows ==
  [i \in 1..MaxScrollRows |->
     DataRow(i, IF i % 2 = 0 THEN <<"b">> ELSE <<"a">>, Num(MaxScrollRows - i))]

\* Offsets within the first row, within the tenth, and at the eleventh and
\* fourteenth.
ManyScrollOffsets == { 0, 20, 360, 380, 400, 520 }

\* A call by the page's code or an event dispatched to a listener.
ScrollExternal(A) ==
  /\ calls < MaxScrollCalls
  /\ calls' = calls + 1
  /\ A
  /\ UNCHANGED probeVars

ScrollNext ==
  \/ \E preservePage \in BOOLEAN : ScrollExternal(SetData(ManyRows, preservePage, TRUE))
  \/ ScrollExternal(Reload(TRUE))
  \/ \E search \in SearchInputs : ScrollExternal(SetSearch(search))
  \/ \E page \in 0..1 : ScrollExternal(SetPage(page))
  \/ \E pageSize \in { 12, 25 } : ScrollExternal(SetPageSize(pageSize))
  \/ ScrollExternal(SetSort("score", "asc", FALSE))
  \/ ScrollExternal(ToggleSort("score", FALSE))
  \/ ScrollExternal(ClearState)
  \/ ScrollExternal(Destroy)
  \/ \E offset \in ManyScrollOffsets : ScrollExternal(ScrollEvent(offset))
  \/ \E row \in { 0, 3, 11, 12 }, key \in {"ArrowUp", "ArrowDown", "ArrowLeft"} :
       ScrollExternal(KeyboardEvent(row, key))
  \/ ScrollExternal(SearchInput(<<"b">>))
  \/ Internal(RenderFrame)
  \/ Internal(DebounceFire)

SpecScroll == InitWith({FALSE}, StoredRecords, { <<>>, ManyRows }, {TRUE}) /\ [][ScrollNext]_vars

\* What a render pass run now would report.
UpToDateResults ==
  { RenderResultOf(base, ComputeVirtualWindow(base.pageRows, state.scrollTop)) :
      base \in ComputeRenderResult(serverEnabled, serverSnapshot, state, engineRows,
                                   engineColumns, engineCaseSensitive) }

\* C31: in client mode, while no render is scheduled and the table is not
\* destroyed, getRows() is the page QueryEngine.run returns for the current
\* rows and state, and startRowIndex, endRowIndex and getVisibleRows() are
\* the window computed from the current scrollTop.
C31_ReportedIsUpToDate ==
  (~serverEnabled /\ renderToken = NoFrame /\ ~destroyed) =>
    \E result \in UpToDateResults :
      /\ renderResult.pageRows = result.pageRows
      /\ renderResult.startRowIndex = result.startRowIndex
      /\ renderResult.endRowIndex = result.endRowIndex
      /\ renderResult.visibleRows = result.visibleRows

\* After a scroll within the tenth row that asked for no render, the table
\* reports the fourteen rows and the window from the second row on.
C31_Witness ==
  /\ ~serverEnabled
  /\ renderToken = NoFrame
  /\ ~destroyed
  /\ calls = 2
  /\ state.scrollTop = 380
  /\ Len(renderResult.pageRows) = MaxScrollRows
  /\ renderResult.startRowIndex = 1
  /\ renderResult.endRowIndex = MaxScrollRows
  /\ Len(renderResult.visibleRows) = MaxScrollRows - 1

====
